---- MODULE Spec2Model ----
(***************************************************************************)
(* A model of the GPX import pipeline of gps-log-tools: the GeoPackage      *)
(* driving log (DrivingLog.py, import_gpx.py), GPX file processing          *)
(* (GPXFile.py) and the construction of a track's geometry                  *)
(* (DrivingTrack.py).                                                       *)
(*                                                                          *)
(* Python lists are modelled as TLA+ sequences.  Python indexes are 0-based *)
(* and are kept 0-based in the definitions that compute with them; At and   *)
(* Slice translate them.  An exception that leaves a function is modelled  *)
(* as a result record whose field "kind" names the exception.               *)
(***************************************************************************)
EXTENDS Integers, Sequences, FiniteSets, TLC

VARIABLES
    storeExists,   \* os.path.exists(CANONICAL_GPKG_FILE)
    store,         \* rows of layer driving_tracks of the canonical GeoPackage
    skew,          \* len(gdf) - COUNT(fid): 0 when the file is consistent
    backupFile,    \* contents of CANONICAL_BACKUP_FILE, or NoBackup
    min_points,    \* CONFIG['import']['min_points']
    log,           \* the DrivingLog instance of DrivingLog.py: "none" or "ready"
    gf,            \* a GPXFile instance held by the caller, or NoFile
    pc,            \* position inside import_gpx() of import_gpx.py
    gpx_files,     \* the argument of the running import_gpx()
    out,           \* what the last operation printed
    err,           \* the exception that ended the last operation, or "none"
    lastOp,        \* name of the last operation
    storeBefore,   \* rows of the store when the last operation started
    backupBefore,  \* the backup file when the last operation started
    arg,           \* list argument of the last operation
    lastBatch,     \* the files of the latest import_gpx_files call, while
                   \* no other operation has written to the store since
    repeat,        \* the last operation was import_gpx_files on lastBatch again
    loaded,        \* how many files the last import_gpx_files call loaded
    coords,        \* DrivingTrack.coords of the geometry specification
    geometry,      \* DrivingTrack.geometry of the geometry specification
    trackpoints,   \* rdp_spherical: the points given to it
    epsilon,       \* rdp_spherical: the tolerance given to it, in degrees
    results,       \* rdp_spherical: what it returned
    segments,      \* trk_split_trksegs: the segments given to it
    threshold,     \* trk_split_trksegs: the threshold given to it, in seconds
    updated_trksegs, \* trk_split_trksegs: what it returned
    trksegs,       \* _trk_merge_trksegs: the segments given to it
    max_seconds,   \* import_config['merge_segments']['max_seconds']
    merged,        \* _trk_merge_trksegs: what it returned
    speed_trackpoints, \* filter_speed: the trackpoints given to it
    rolling_window,    \* filter_speed: the length of the rolling window
    method,            \* filter_speed: 'center' or 'extended'
    profile,           \* filter_speed: the profile of the GPX creator
    speed_multiplier,  \* CONFIG['speed_multiplier'][profile]
    speed_runs,        \* filter_speed: the calls made, by min_speed_m_s
    segment,       \* trkseg_remove_time_travel: the segment given to it
    travelled,     \* trkseg_remove_time_travel: the segment it returned
    teleported,    \* trkseg_remove_teleportation: the segment it returned
    extensions,    \* get_speed: the extensions of the point given to it
    speed,         \* get_speed: what it returned
    timelog_track,   \* trk_filter_timelog: the track given to it
    timesegs,        \* trk_filter_timelog: the timelog segments
    raise_exception, \* trk_filter_timelog: the strictness flag
    filtered_track,  \* trk_filter_timelog: what it returned
    gpxfile,         \* process: the GPXFile object of the device profile
    timelog,         \* process: what get_timelog_segments returns
    processed        \* process: how it ended, and the object after it

importVars == <<storeExists, store, skew, backupFile, min_points, log, gf, pc,
                gpx_files, out, err, lastOp, storeBefore, backupBefore, arg,
                lastBatch, repeat, loaded>>
geomVars == <<coords, geometry>>
rdpVars == <<trackpoints, epsilon, results>>
splitVars == <<segments, threshold, updated_trksegs>>
mergeVars == <<trksegs, max_seconds, merged>>
speedVars == <<speed_trackpoints, rolling_window, method, profile,
               speed_multiplier, speed_runs>>
travelVars == <<segment, travelled, teleported>>
extractVars == <<extensions, speed>>
timelogVars == <<timelog_track, timesegs, raise_exception, filtered_track>>
processVars == <<gpxfile, timelog, processed>>
moreVars == <<extractVars, timelogVars, processVars>>
stageVars == <<rdpVars, splitVars, mergeVars, speedVars, travelVars, moreVars>>
vars == <<importVars, geomVars, stageVars>>

----------------------------------------------------------------------------
(* Bounds of the model. *)

MaxTime == 2     \* segment start times are 1..MaxTime
MaxPts == 2      \* a segment has 0..MaxPts points
MaxFiles == 2    \* an import batch names 0..MaxFiles files
MaxStore == 2    \* appends are taken while the store stays within MaxStore rows
MaxCoords == 4   \* coordinate lists of the geometry specification
MaxRdp == 4      \* point lists given to rdp_spherical
MaxSegPts == 3   \* points of a segment given to trk_split_trksegs
MaxGap == 2      \* time between two points of such a segment, and thresholds
MaxSegs == 3     \* segments of a list given to _trk_merge_trksegs
MaxClock == 4    \* start times of the segments of such a list
MaxSpeedPts == 4 \* point lists given to filter_speed
MaxTravel == 3   \* consecutive points of a segment with a clock set back
MaxExt == 2      \* extension elements of a point given to get_speed
MaxLogPts == 3   \* points of a segment given to trk_filter_timelog
MaxProcPts == 3  \* points of a segment of a file given to process

----------------------------------------------------------------------------
(* Python list access. *)

At(s, i) == s[i + 1]
Last(s) == s[Len(s)]
Slice(s, a, b) == IF b <= a THEN <<>> ELSE SubSeq(s, a + 1, b)

RECURSIVE SeqSum(_)
SeqSum(s) == IF s = <<>> THEN 0 ELSE Head(s) + SeqSum(Tail(s))

RECURSIVE Flatten(_)
Flatten(ss) == IF ss = <<>> THEN <<>> ELSE Head(ss) \o Flatten(Tail(ss))

Range(s) == {s[i] : i \in 1..Len(s)}

SetMin(S) == CHOOSE x \in S : \A y \in S : x <= y
SetMax(S) == CHOOSE x \in S : \A y \in S : x >= y

----------------------------------------------------------------------------
(* Coordinates are Python floats; the model computes with exact rationals   *)
(* <<numerator, denominator>>, denominator > 0, in lowest terms.            *)

Abs(n) == IF n < 0 THEN -n ELSE n

RECURSIVE Gcd(_, _)
Gcd(a, b) == IF b = 0 THEN a ELSE Gcd(b, a % b)

Rat(n, d) ==
    LET s == IF d < 0 THEN -1 ELSE 1
        g == Gcd(Abs(n), Abs(d))
    IN  <<(s * n) \div g, (s * d) \div g>>

R(n) == <<n, 1>>
RAdd(x, y) == Rat(x[1] * y[2] + y[1] * x[2], x[2] * y[2])
RSub(x, y) == Rat(x[1] * y[2] - y[1] * x[2], x[2] * y[2])
RMul(x, y) == Rat(x[1] * y[1], x[2] * y[2])
RDiv(x, y) == Rat(x[1] * y[2], x[2] * y[1])
RLt(x, y) == x[1] * y[2] < y[1] * x[2]
RIsZero(x) == x[1] = 0

(* Longitudes and latitudes are written in tenths of a degree. *)
Deg(tenths) == Rat(tenths, 10)

----------------------------------------------------------------------------
(* DrivingTrack.py: the geometry of a track.  A coordinate is the tuple     *)
(* <<longitude, latitude>> in degrees.                                      *)

NoPoint == [kind |-> "none"]

(* Line 112: the point at fraction x_frac of the way from p1 to p2. *)
Interpolate(p1, p2, x_frac) ==
    [kind |-> "point",
     p |-> <<RAdd(p1[1], RMul(x_frac, RSub(p2[1], p1[1]))),
             RAdd(p1[2], RMul(x_frac, RSub(p2[2], p1[2])))>>]

(* Lines 111-112, p2 being the shifted point. *)
CrossingAt(p1, p2, lon) ==
    IF RIsZero(RSub(p2[1], p1[1])) THEN [kind |-> "ZeroDivisionError"]
    ELSE Interpolate(p1, p2, RDiv(RSub(lon, p1[1]), RSub(p2[1], p1[1])))

(* DrivingTrack.__crossing_point *)
CrossingPoint(p1, p2) ==
    IF RLt(R(-180), p1[1]) /\ RLt(p1[1], R(0))
    THEN CrossingAt(p1, <<RSub(p2[1], R(360)), p2[2]>>, R(-180))
    ELSE IF RLt(R(0), p1[1]) /\ RLt(p1[1], R(180))
    THEN CrossingAt(p1, <<RAdd(p2[1], R(360)), p2[2]>>, R(180))
    ELSE NoPoint

(* The condition of the comprehension of lines 61-65. *)
SignFlip(p1, p2) ==
    \/ RLt(p1[1], R(0)) /\ ~RLt(p2[1], R(0))
    \/ ~RLt(p1[1], R(0)) /\ RLt(p2[1], R(0))

(* crossings: the 0-based indexes i + 1 of the second point of each pair. *)
Crossings(cs) ==
    SelectSeq([i \in 1..(Len(cs) - 1) |-> i],
              LAMBDA i : SignFlip(cs[i], cs[i + 1]))

(* Lines 72-74:                                                             *)
(* tracks = [coords[start:end] for start, end in zip(starts, ends)]         *)
SliceTracks(cs, starts, ends) ==
    [j \in 1..Len(starts) |-> Slice(cs, starts[j], ends[j])]

SplitTracks(cs, crossings) ==
    SliceTracks(cs, <<0>> \o crossings, crossings \o <<Len(cs) - 1>>)

(* Lines 80-81: track.insert(0, p_cross) unless p_cross is None. *)
WithFirst(track, p_cross) ==
    IF p_cross.kind = "point"
    THEN [kind |-> "ok", track |-> <<p_cross.p>> \o track]
    ELSE IF p_cross.kind = "none" THEN [kind |-> "ok", track |-> track]
    ELSE [kind |-> p_cross.kind]

(* Lines 76-81: the crossing point put in front of tracks[i]. *)
InsertFirst(tracks, i) ==
    IF i = 0 THEN [kind |-> "ok", track |-> At(tracks, i)]
    ELSE IF At(tracks, i) = <<>> \/ At(tracks, i - 1) = <<>>
    THEN [kind |-> "IndexError"]
    ELSE WithFirst(At(tracks, i),
                   CrossingPoint(At(tracks, i)[1], Last(At(tracks, i - 1))))

(* Lines 86-87: track.append(p_cross) unless p_cross is None. *)
WithLast(track, p_cross) ==
    IF p_cross.kind = "point"
    THEN [kind |-> "ok", track |-> Append(track, p_cross.p)]
    ELSE IF p_cross.kind = "none" THEN [kind |-> "ok", track |-> track]
    ELSE [kind |-> p_cross.kind]

(* Lines 82-87: the crossing point put behind tracks[i]. *)
AppendLast(tracks, i, track, k) ==
    IF ~(i < k) THEN [kind |-> "ok", track |-> track]
    ELSE IF track = <<>> \/ At(tracks, i + 1) = <<>>
    THEN [kind |-> "IndexError"]
    ELSE WithLast(track, CrossingPoint(Last(track), At(tracks, i + 1)[1]))

(* The loop of lines 75-87; it changes the lists of tracks in place, so     *)
(* iteration i reads tracks[i-1] as iteration i-1 left it.  a is the result *)
(* of lines 76-81 and b the result of lines 82-87 of iteration i.           *)
RECURSIVE InsertCrossings(_, _, _)
RECURSIVE AfterFirst(_, _, _, _)
RECURSIVE AfterLast(_, _, _, _)
AfterLast(tracks, i, k, b) ==
    IF b.kind # "ok" THEN [kind |-> b.kind]
    ELSE InsertCrossings([tracks EXCEPT ![i + 1] = b.track], i + 1, k)

AfterFirst(tracks, i, k, a) ==
    IF a.kind # "ok" THEN [kind |-> a.kind]
    ELSE AfterLast(tracks, i, k, AppendLast(tracks, i, a.track, k))

InsertCrossings(tracks, i, k) ==
    IF i >= Len(tracks) THEN [kind |-> "ok", tracks |-> tracks]
    ELSE AfterFirst(tracks, i, k, InsertFirst(tracks, i))

(* Lines 89-91: the tracks of more than one point, as a MultiLineString. *)
MultiLineStringOf(r) ==
    IF r.kind # "ok" THEN [kind |-> r.kind]
    ELSE [kind |-> "MultiLineString",
          parts |-> SelectSeq(r.tracks, LAMBDA t : Len(t) > 1)]

(* Lines 66-91, crossings being the list of lines 61-65. *)
SplitGeometry(cs, crossings) ==
    IF Len(crossings) = 0
    THEN [kind |-> "MultiLineString", parts |-> <<cs>>]
    ELSE MultiLineStringOf(
             InsertCrossings(SplitTracks(cs, crossings), 0, Len(crossings)))

(* DrivingTrack.__track_geometry *)
TrackGeometry(cs) ==
    IF Len(cs) < 2 THEN [kind |-> "None"]
    ELSE SplitGeometry(cs, Crossings(cs))

----------------------------------------------------------------------------
(* The parsed GPX input (gpxpy): a file is a creator string and a list of   *)
(* tracks, a track a list of segments, a segment a list of points.  Times   *)
(* are instants in seconds.  A creator string is represented by the set of  *)
(* the device signatures that occur in it.                                  *)

Pt(t) == [time |-> t, longitude |-> Deg(t), latitude |-> R(0)]
Seg(start, n) == [points |-> [i \in 1..n |-> Pt(start + i - 1)]]

Segments == {Seg(s, n) : s \in 1..MaxTime, n \in 0..MaxPts}
FullSegments == {Seg(s, MaxPts) : s \in 1..MaxTime}
Tracks ==
    {[segments |-> <<>>]}
    \cup {[segments |-> <<a>>] : a \in Segments}
    \cup {[segments |-> <<a, Seg(MaxTime, MaxPts)>>] : a \in Segments}
Unparseable == [kind |-> "unparseable"]
GpxFiles ==
    {Unparseable}
    \cup {[kind |-> "gpx", creator |-> {}, tracks |-> <<>>]}
    \cup {[kind |-> "gpx", creator |-> {}, tracks |-> <<t>>] : t \in Tracks}
    \cup {[kind |-> "gpx", creator |-> {},
           tracks |-> <<[segments |-> <<a>>], [segments |-> <<b>>]>>] :
             a \in FullSegments, b \in FullSegments}

(* gpx_utilities.gpx_profile *)
gpx_profile(creator) ==
    IF "Bad Elf" \in creator THEN "bad_elf"
    ELSE IF "DriveSmart" \in creator THEN "garmin"
    ELSE IF "myTracks" \in creator THEN "mytracks"
    ELSE "_default"

----------------------------------------------------------------------------
(* The GeoPackage stores source_track_timestamp as text and the readers     *)
(* parse it back (dateutil.parser.parse).                                   *)

FormatTs(t) == [iso |-> t]
ParseTs(d) == d.iso

(* Line 29: self.coords *)
CoordsOf(points) ==
    [i \in 1..Len(points) |-> <<points[i].longitude, points[i].latitude>>]

(* DrivingTrack.__init__ and lines 29-36 of load_gpx_trkseg, g being the    *)
(* result of __track_geometry.                                              *)
TrackLoaded(timestamp, points, g) ==
    IF g.kind \notin {"None", "MultiLineString"} THEN [kind |-> g.kind]
    ELSE IF points = <<>> THEN [kind |-> "IndexError"]
    ELSE [kind |-> "ok",
          track |-> [timestamp |-> timestamp,
                     coords |-> CoordsOf(points),
                     geometry |-> g,
                     creator |-> {},
                     utc_start |-> points[1].time,
                     utc_stop |-> Last(points).time]]

(* DrivingTrack.load_gpx_trkseg, after DrivingTrack.__init__ *)
LoadGpxTrkseg(timestamp, trkseg) ==
    TrackLoaded(timestamp, trkseg.points, TrackGeometry(CoordsOf(trkseg.points)))

(* DrivingTrack.get_record *)
GetRecord(dt) ==
    [geometry |-> dt.geometry,
     utc_start |-> dt.utc_start,
     utc_stop |-> dt.utc_stop,
     source_track_timestamp |-> FormatTs(dt.timestamp),
     creator |-> dt.creator]

----------------------------------------------------------------------------
(* GPXFile.py *)

NoFile == [kind |-> "none"]

(* GPXFile._existing_trk_timestamps *)
FileExistingTrkTimestamps(rows) ==
    {ParseTs(rows[i].source_track_timestamp) : i \in 1..Len(rows)}

(* GPXFile.__init__ *)
GPXFileInit(f, rows) ==
    [kind |-> "GPXFile",
     gpx |-> f,
     is_processed |-> FALSE,
     driving_tracks |-> <<>>,
     existing_trk_timestamps |-> FileExistingTrkTimestamps(rows),
     profile |-> gpx_profile(f.creator)]

(* GPXFile.load *)
GPXFileLoad(f, rows) ==
    IF f.kind = "unparseable" THEN [kind |-> "GPXXMLSyntaxException"]
    ELSE [kind |-> "ok", obj |-> GPXFileInit(f, rows)]

(* GPXFile._trk_get_time_range *)
TrkGetTimeRange(trk) ==
    IF \E i \in 1..Len(trk.segments) : trk.segments[i].points = <<>>
    THEN [kind |-> "IndexError"]
    ELSE IF trk.segments = <<>> THEN [kind |-> "ValueError"]
    ELSE [kind |-> "ok",
          min_time |-> SetMin({trk.segments[i].points[1].time :
                                 i \in 1..Len(trk.segments)}),
          max_time |-> SetMax({Last(trk.segments[i].points).time :
                                 i \in 1..Len(trk.segments)})]

(* GPXFile._trk_in_log, given the result of _trk_get_timestamp *)
TrkInLog(obj, timestamp) == timestamp \in obj.existing_trk_timestamps

(* Lines 179-183, r being the DrivingTrack that loaded the segment. *)
DrivingTrackAppended(dts, r, creator) ==
    IF r.kind # "ok" THEN [kind |-> r.kind, driving_tracks |-> dts]
    ELSE [kind |-> "ok",
          driving_tracks |-> Append(dts, [r.track EXCEPT !.creator = creator])]

(* GPXFile._trkseg_append_driving_track *)
TrksegAppendDrivingTrack(dts, trkseg, timestamp, minpts, creator) ==
    IF Len(trkseg.points) >= minpts
    THEN DrivingTrackAppended(dts, LoadGpxTrkseg(timestamp, trkseg), creator)
    ELSE [kind |-> "ok", driving_tracks |-> dts]

(* The loop of lines 81-83 over the segments of one track; r is the result  *)
(* of segment j.                                                            *)
RECURSIVE AppendTrksegs(_, _, _, _, _, _)
RECURSIVE NextTrkseg(_, _, _, _, _, _)
NextTrkseg(r, segs, j, timestamp, minpts, creator) ==
    IF r.kind # "ok" THEN r
    ELSE AppendTrksegs(r.driving_tracks, segs, j + 1, timestamp, minpts,
                       creator)

AppendTrksegs(dts, segs, j, timestamp, minpts, creator) ==
    IF j > Len(segs) THEN [kind |-> "ok", driving_tracks |-> dts]
    ELSE NextTrkseg(TrksegAppendDrivingTrack(dts, segs[j], timestamp, minpts,
                                             creator),
                    segs, j, timestamp, minpts, creator)

(* The loop of lines 70-83 over the tracks of the file: range is the result *)
(* of _trk_get_time_range for track i, r the result of its segments.        *)
RECURSIVE ProcessTrks(_, _, _, _, _)
RECURSIVE ProcessTrk(_, _, _, _, _, _)
RECURSIVE NextTrk(_, _, _, _, _)
NextTrk(obj, i, r, msgs, minpts) ==
    IF r.kind # "ok"
    THEN [kind |-> r.kind, driving_tracks |-> r.driving_tracks, out |-> msgs]
    ELSE ProcessTrks(obj, i + 1, r.driving_tracks, msgs, minpts)

ProcessTrk(obj, i, dts, msgs, minpts, range) ==
    IF range.kind # "ok"
    THEN [kind |-> range.kind, driving_tracks |-> dts, out |-> msgs]
    ELSE IF TrkInLog(obj, range.min_time)
    THEN ProcessTrks(obj, i + 1, dts,
                     Append(msgs, [msg |-> "already in the driving log",
                                   timestamp |-> range.min_time]),
                     minpts)
    ELSE NextTrk(obj, i,
                 AppendTrksegs(dts, obj.gpx.tracks[i].segments, 1,
                               range.min_time, minpts, obj.gpx.creator),
                 msgs, minpts)

ProcessTrks(obj, i, dts, msgs, minpts) ==
    IF i > Len(obj.gpx.tracks)
    THEN [kind |-> "ok", driving_tracks |-> dts, out |-> msgs]
    ELSE ProcessTrk(obj, i, dts, msgs, minpts,
                    TrkGetTimeRange(obj.gpx.tracks[i]))

(* Lines 70-85, r being the result of the loop. *)
Processed(obj, r) ==
    [kind |-> r.kind,
     obj |-> [obj EXCEPT !.driving_tracks = r.driving_tracks,
                         !.is_processed = (r.kind = "ok")],
     out |-> r.out]

(* GPXFile.process *)
GPXFileProcess(obj, minpts) ==
    IF obj.is_processed
    THEN [kind |-> "ok", obj |-> obj,
          out |-> <<[msg |-> "already been processed"]>>]
    ELSE Processed(obj, ProcessTrks(obj, 1, obj.driving_tracks, <<>>, minpts))

(* The parameters that "def process(self)" binds by keyword: none.  A call  *)
(* that passes any other keyword raises TypeError before the body runs.     *)
ProcessKeywords == {}

----------------------------------------------------------------------------
(* DrivingLog.py, and the copy of the class in import_gpx.py *)

NoBackup == [kind |-> "none"]
NoBatch == [kind |-> "none"]

(* DrivingLog.existing_trk_timestamps *)
ExistingTrkTimestamps(rows) ==
    {ParseTs(rows[i].source_track_timestamp) : i \in 1..Len(rows)}

(* DrivingLog.check_logfile_integrity: len(gdf) against COUNT(fid) *)
CheckLogfileIntegrity(rows, sk) ==
    IF Len(rows) + sk # Len(rows) THEN "RuntimeError" ELSE "ok"

(* DrivingLog.verify_logfile of DrivingLog.py *)
VerifyLogfile(exists, rows, sk) ==
    IF exists
    THEN [kind |-> CheckLogfileIntegrity(rows, sk), rows |-> rows, skew |-> sk]
    ELSE [kind |-> "ok", rows |-> <<>>, skew |-> 0]

(* DrivingLog.verify_logfile of import_gpx.py *)
VerifyLogfileImportGpx(exists, rows, sk) ==
    IF exists
    THEN [kind |-> "ok", rows |-> rows, skew |-> sk]
    ELSE [kind |-> "ok", rows |-> <<>>, skew |-> 0]

(* DrivingLog.backup: shutil.copy of the whole file *)
BackupCopy(rows, sk) == [kind |-> "file", rows |-> rows, skew |-> sk]

(* A faulty variant of lines 46-51 that keeps every track. *)
KeptRecordsAll(dts) == [i \in 1..Len(dts) |-> GetRecord(dts[i])]

(* Lines 46-51 of append_tracks_to_gpkg: the records that are kept. *)
RECURSIVE KeptRecords(_)
KeptRecords(dts) ==
    IF dts = <<>> THEN <<>>
    ELSE IF Head(dts).geometry.kind = "None" THEN KeptRecords(Tail(dts))
    ELSE <<GetRecord(Head(dts))>> \o KeptRecords(Tail(dts))

(* Lines 48-50: one line printed for each track without geometry. *)
RECURSIVE NoGeometryLines(_)
NoGeometryLines(dts) ==
    IF dts = <<>> THEN <<>>
    ELSE IF Head(dts).geometry.kind = "None"
    THEN <<[msg |-> "has no geometry", timestamp |-> Head(dts).timestamp]>>
         \o NoGeometryLines(Tail(dts))
    ELSE NoGeometryLines(Tail(dts))

(* A faulty variant of lines 53-106 that opens the layer with mode="w". *)
WriteRecordsTruncating(rows, records) ==
    IF Len(records) > 0 THEN records ELSE rows

(* Lines 53-106: the layer is opened with mode="a" and the records are      *)
(* written behind its rows.  The incoming columns are those of get_record,  *)
(* which the layer has.                                                     *)
WriteRecords(rows, records) ==
    IF Len(records) > 0 THEN rows \o records ELSE rows

(* DrivingLog.append_tracks_to_gpkg *)
AppendTracksToGpkg(rows, dts) ==
    [rows |-> WriteRecords(rows, KeptRecords(dts)),
     out |-> NoGeometryLines(dts)
             \o <<[msg |-> "Appended", n |-> Len(KeptRecords(dts))]>>]

(* Line 189, at the end of the loop. *)
BatchAppended(a, msgs, n) ==
    [kind |-> "ok", rows |-> a.rows, out |-> msgs \o a.out, loaded |-> n]

(* The set of lines 185-186. *)
AddedTs(file_tracks) ==
    {file_tracks[j].timestamp : j \in 1..Len(file_tracks)}

(* The loop of lines 172-186 of import_gpx_files and the append of line     *)
(* 189: l is the result of GPXFile.load for file i and p the result of      *)
(* process for it.                                                          *)
RECURSIVE ImportLoop(_, _, _, _, _, _, _)
RECURSIVE FileLoaded(_, _, _, _, _, _, _, _)
RECURSIVE FileProcessed(_, _, _, _, _, _, _, _)
FileProcessed(files, i, existing_ts, new_gpx_tracks, msgs, rows, minpts, p) ==
    IF p.kind # "ok"
    THEN [kind |-> p.kind, rows |-> rows, out |-> msgs \o p.out,
          loaded |-> i]
    ELSE ImportLoop(files, i + 1,
                    existing_ts \cup AddedTs(p.obj.driving_tracks),
                    new_gpx_tracks \o p.obj.driving_tracks,
                    msgs \o p.out, rows, minpts)

(* A faulty variant of lines 172-186 that writes the tracks of a file as    *)
(* soon as the file is loaded, before the call of line 177 raises.          *)
FileLoadedCommitting(files, i, existing, new_tracks, msgs, rows, minpts, l) ==
    IF l.kind # "ok"
    THEN [kind |-> l.kind, rows |-> rows, out |-> msgs, loaded |-> i - 1]
    ELSE [kind |-> "TypeError",
          rows |-> AppendTracksToGpkg(
                       rows,
                       GPXFileProcess(l.obj, minpts).obj.driving_tracks).rows,
          out |-> msgs, loaded |-> i]

FileLoaded(files, i, existing_ts, new_gpx_tracks, msgs, rows, minpts, l) ==
    IF l.kind # "ok"
    THEN [kind |-> l.kind, rows |-> rows, out |-> msgs, loaded |-> i - 1]
    ELSE IF ~({"existing_timestamps"} \subseteq ProcessKeywords)
    THEN [kind |-> "TypeError", rows |-> rows, out |-> msgs, loaded |-> i]
    ELSE FileProcessed(files, i, existing_ts, new_gpx_tracks, msgs, rows,
                       minpts, GPXFileProcess(l.obj, minpts))

ImportLoop(files, i, existing_ts, new_gpx_tracks, msgs, rows, minpts) ==
    IF i > Len(files)
    THEN BatchAppended(AppendTracksToGpkg(rows, new_gpx_tracks), msgs,
                       Len(files))
    ELSE FileLoaded(files, i, existing_ts, new_gpx_tracks, msgs, rows,
                    minpts, GPXFileLoad(files[i], rows))

(* DrivingLog.import_gpx_files *)
ImportGpxFiles(files, rows, minpts) ==
    IF Len(files) = 0
    THEN [kind |-> "ok", rows |-> rows,
          out |-> <<[msg |-> "No GPX file was provided"]>>, loaded |-> 0]
    ELSE ImportLoop(files, 1, ExistingTrkTimestamps(rows), <<>>, <<>>, rows,
                    minpts)

----------------------------------------------------------------------------
(* The stages of the pipeline are functions of their arguments.  Each has   *)
(* a specification of its own; in the others its variables stay idle.       *)

Unset == [kind |-> "unset"]

RdpIdle == trackpoints = <<>> /\ epsilon = 0 /\ results = Unset

SplitIdle == segments = <<>> /\ threshold = 0 /\ updated_trksegs = Unset

MergeIdle == trksegs = <<>> /\ max_seconds = 0 /\ merged = Unset

SpeedIdle ==
    /\ speed_trackpoints = <<>>
    /\ rolling_window = 1
    /\ method = "center"
    /\ profile = "_default"
    /\ speed_multiplier = 1
    /\ speed_runs = {}

TravelIdle ==
    segment = [points |-> <<>>] /\ travelled = Unset /\ teleported = Unset

ExtractIdle == extensions = <<>> /\ speed = Unset

TimelogIdle ==
    /\ timelog_track = [segments |-> <<>>]
    /\ timesegs = <<>>
    /\ raise_exception = TRUE
    /\ filtered_track = Unset

ProcessIdle ==
    /\ gpxfile = Unset
    /\ timelog = <<>>
    /\ processed = Unset

MoreIdle == ExtractIdle /\ TimelogIdle /\ ProcessIdle

StagesIdle ==
    RdpIdle /\ SplitIdle /\ MergeIdle /\ SpeedIdle /\ TravelIdle /\ MoreIdle

----------------------------------------------------------------------------
(* The state machine.  The program is single-threaded: one operation runs   *)
(* at a time.  import_gpx() of import_gpx.py is three steps (construct,     *)
(* backup, import_gpx_files); the methods of DrivingLog.py and GPXFile.py   *)
(* are operations a caller runs while no import_gpx() is under way.         *)

(* The files an import batch is drawn from: an unparseable file, a file     *)
(* without tracks, and files of one track of one segment.                   *)
BatchFiles ==
    {Unparseable, [kind |-> "gpx", creator |-> {}, tracks |-> <<>>]}
    \cup {[kind |-> "gpx", creator |-> {},
           tracks |-> <<[segments |-> <<a>>]>>] :
             a \in {Seg(1, MaxPts), Seg(2, MaxPts), Seg(1, 1)}}
Batches == UNION {[1..n -> BatchFiles] : n \in 0..MaxFiles}

(* A store left by an earlier import: one track that started at time 1. *)
EarlierTrack == LoadGpxTrkseg(1, Seg(1, MaxPts)).track
InitStores == {<<>>, <<GetRecord(EarlierTrack)>>}

(* The store file before the program runs, and no object made yet. *)
InitFiles ==
    /\ storeExists \in BOOLEAN
    /\ store \in (IF storeExists THEN InitStores ELSE {<<>>})
    /\ skew \in (IF storeExists THEN {0, 1} ELSE {0})
    /\ min_points \in 1..MaxPts
    /\ log = "none"
    /\ gf = NoFile
    /\ pc = "idle"
    /\ gpx_files = <<>>
    /\ out = <<>>
    /\ err = "none"
    /\ lastOp = "init"
    /\ storeBefore = store
    /\ backupBefore = backupFile
    /\ arg = <<>>
    /\ lastBatch = NoBatch
    /\ repeat = FALSE
    /\ loaded = 0
    /\ coords = <<>>
    /\ geometry = [kind |-> "None"]
    /\ StagesIdle

Init ==
    /\ backupFile \in {NoBackup, BackupCopy(<<>>, 0)}
    /\ InitFiles

(* The methods do not touch the backup file. *)
InitMethods ==
    /\ backupFile = NoBackup
    /\ InitFiles

(* What every operation records about itself. *)
Ran(op, e, o, a) ==
    /\ lastOp' = op
    /\ err' = e
    /\ out' = o
    /\ arg' = a
    /\ storeBefore' = store
    /\ backupBefore' = backupFile

(* DrivingLog.__init__ of DrivingLog.py *)
NewDrivingLog ==
    /\ pc = "idle"
    /\ log = "none"
    /\ LET v == VerifyLogfile(storeExists, store, skew)
       IN  /\ storeExists' = TRUE
           /\ store' = v.rows
           /\ skew' = v.skew
           /\ log' = IF v.kind = "ok" THEN "ready" ELSE "none"
           /\ Ran("DrivingLog", v.kind, <<>>, <<>>)
    /\ repeat' = FALSE
    /\ lastBatch' = NoBatch
    /\ UNCHANGED <<backupFile, min_points, gf, pc, gpx_files,
                   loaded, geomVars, stageVars>>

(* DrivingLog.backup *)
Backup ==
    /\ pc = "idle"
    /\ log = "ready"
    /\ backupFile' = BackupCopy(store, skew)
    /\ Ran("backup", "ok", <<[msg |-> "Backed up"]>>, <<>>)
    /\ repeat' = FALSE
    /\ lastBatch' = NoBatch
    /\ UNCHANGED <<storeExists, store, skew, min_points, log, gf, pc,
                   gpx_files, loaded, geomVars, stageVars>>

(* GPXFile.load *)
LoadFile(f) ==
    /\ pc = "idle"
    /\ log = "ready"
    /\ LET l == GPXFileLoad(f, store)
       IN  /\ gf' = IF l.kind = "ok" THEN l.obj ELSE NoFile
           /\ Ran("load", l.kind, <<>>, <<>>)
    /\ repeat' = FALSE
    /\ lastBatch' = NoBatch
    /\ UNCHANGED <<storeExists, store, skew, backupFile, min_points, log, pc,
                   gpx_files, loaded, geomVars, stageVars>>

(* GPXFile.process; an exception leaves the caller without the object. *)
ProcessFile ==
    /\ pc = "idle"
    /\ gf # NoFile
    /\ LET p == GPXFileProcess(gf, min_points)
       IN  /\ gf' = IF p.kind = "ok" THEN p.obj ELSE NoFile
           /\ Ran("process", p.kind, p.out, <<>>)
    /\ repeat' = FALSE
    /\ lastBatch' = NoBatch
    /\ UNCHANGED <<storeExists, store, skew, backupFile, min_points, log, pc,
                   gpx_files, loaded, geomVars, stageVars>>

(* DrivingLog.append_tracks_to_gpkg on the tracks of a GPXFile *)
AppendTracks ==
    /\ pc = "idle"
    /\ log = "ready"
    /\ gf # NoFile
    /\ Len(store) + Len(gf.driving_tracks) <= MaxStore
    /\ LET a == AppendTracksToGpkg(store, gf.driving_tracks)
       IN  /\ store' = a.rows
           /\ Ran("append_tracks_to_gpkg", "ok", a.out, gf.driving_tracks)
    /\ lastBatch' = NoBatch
    /\ repeat' = FALSE
    /\ UNCHANGED <<storeExists, skew, backupFile, min_points, log, gf, pc,
                   gpx_files, loaded, geomVars, stageVars>>

(* What a call of import_gpx_files does to the state. *)
RunImportGpxFiles(op, files) ==
    LET r == ImportGpxFiles(files, store, min_points)
    IN  /\ store' = r.rows
        /\ loaded' = r.loaded
        /\ repeat' = (lastBatch = [kind |-> "batch", files |-> files])
        /\ lastBatch' = [kind |-> "batch", files |-> files]
        /\ Ran(op, r.kind, r.out, <<>>)

(* DrivingLog.import_gpx_files of DrivingLog.py *)
LogImportGpxFiles(files) ==
    /\ pc = "idle"
    /\ log = "ready"
    /\ RunImportGpxFiles("import_gpx_files", files)
    /\ UNCHANGED <<storeExists, skew, backupFile, min_points, log, gf, pc,
                   gpx_files, geomVars, stageVars>>

(* import_gpx, line 125: log = DrivingLog() *)
ImportGpxConstruct(files) ==
    /\ pc = "idle"
    /\ LET v == VerifyLogfileImportGpx(storeExists, store, skew)
       IN  /\ storeExists' = TRUE
           /\ store' = v.rows
           /\ skew' = v.skew
           /\ Ran("import_gpx:DrivingLog", v.kind, <<>>, <<>>)
    /\ pc' = "constructed"
    /\ gpx_files' = files
    /\ repeat' = FALSE
    /\ UNCHANGED <<backupFile, min_points, log, gf, lastBatch, loaded,
                   geomVars, stageVars>>

(* import_gpx, line 126: log.backup() *)
ImportGpxBackup ==
    /\ pc = "constructed"
    /\ backupFile' = BackupCopy(store, skew)
    /\ Ran("import_gpx:backup", "ok", <<[msg |-> "Backed up"]>>, <<>>)
    /\ pc' = "backed_up"
    /\ repeat' = FALSE
    /\ UNCHANGED <<storeExists, store, skew, min_points, log, gf, gpx_files,
                   lastBatch, loaded, geomVars, stageVars>>

(* A faulty import_gpx that calls import_gpx_files before log.backup(). *)
ImportGpxFilesBeforeBackup == "constructed"

(* The position of import_gpx at which line 127 runs: behind line 126. *)
ImportGpxFilesAt == "backed_up"

(* import_gpx, line 127: log.import_gpx_files(gpx_files).  The method of    *)
(* the class of import_gpx.py (lines 84-112) has the loop and the append of *)
(* DrivingLog.py, lines 159-189, statement for statement.                   *)
ImportGpxImportFiles ==
    /\ pc \in {ImportGpxFilesAt}
    /\ RunImportGpxFiles("import_gpx:import_gpx_files", gpx_files)
    /\ pc' = "idle"
    /\ gpx_files' = <<>>
    /\ UNCHANGED <<storeExists, skew, backupFile, min_points, log, gf,
                   geomVars, stageVars>>

(* The import: import_gpx() of import_gpx.py and the methods of the         *)
(* DrivingLog of DrivingLog.py that it is made of.                          *)
Next ==
    \/ NewDrivingLog
    \/ Backup
    \/ \E files \in Batches : LogImportGpxFiles(files)
    \/ \E files \in Batches : ImportGpxConstruct(files)
    \/ ImportGpxBackup
    \/ ImportGpxImportFiles

Spec == Init /\ [][Next]_vars

(* The methods import_gpx_files is made of, run by a caller one by one:     *)
(* GPXFile.load, GPXFile.process and DrivingLog.append_tracks_to_gpkg.      *)
NextMethods ==
    \/ NewDrivingLog
    \/ \E f \in GpxFiles : LoadFile(f)
    \/ ProcessFile
    \/ AppendTracks

SpecMethods == InitMethods /\ [][NextMethods]_vars

----------------------------------------------------------------------------
(* The geometry of a DrivingTrack on its own: load_gpx_trkseg sets coords   *)
(* (line 29) and then computes the geometry from them (line 30).  The       *)
(* paths are the lists of up to MaxCoords points near the antimeridian.     *)

GeomPoints ==
    {<<Deg(lon), R(lat)>> : lon \in {-1799, 1700, 1799, 1800}, lat \in {0, 1}}
Paths == UNION {[1..n -> GeomPoints] : n \in 0..MaxCoords}

InitGeom ==
    /\ storeExists = FALSE
    /\ store = <<>>
    /\ skew = 0
    /\ backupFile = NoBackup
    /\ min_points = 1
    /\ log = "none"
    /\ gf = NoFile
    /\ pc = "idle"
    /\ gpx_files = <<>>
    /\ out = <<>>
    /\ err = "none"
    /\ lastOp = "init"
    /\ storeBefore = <<>>
    /\ backupBefore = NoBackup
    /\ arg = <<>>
    /\ lastBatch = NoBatch
    /\ repeat = FALSE
    /\ loaded = 0
    /\ coords \in Paths
    /\ geometry = [kind |-> "unset"]
    /\ StagesIdle

(* DrivingTrack.load_gpx_trkseg, line 30 *)
SetGeometry ==
    /\ geometry.kind = "unset"
    /\ geometry' = TrackGeometry(coords)
    /\ UNCHANGED <<importVars, coords, stageVars>>

NextGeom == SetGeometry

SpecGeom == InitGeom /\ [][NextGeom]_vars

----------------------------------------------------------------------------
(* simplify_gpx.py.  Coordinates are (longitude, latitude) in whole         *)
(* degrees, taken on the equator and at the north pole, where the angles    *)
(* of the spherical formulas are whole degrees: the great circle through    *)
(* two points of the equator is the equator, and the one through the pole   *)
(* and a point of the equator is the meridian of that point.  The model     *)
(* computes these angles exactly; the floats of the code differ from them   *)
(* by rounding of the order of 1e-14 degrees.                               *)

Coord(p) == <<p.longitude, p.latitude>>

(* great_circle_distance with r=1, times 180/pi: the angle between two      *)
(* points, in degrees.                                                      *)
GreatCircleDistance(point1, point2) ==
    IF point1[2] = point2[2]
    THEN (IF point1[2] = 90 THEN 0 ELSE Abs(point1[1] - point2[1]))
    ELSE Abs(point1[2] - point2[2])

(* cross_track_distance with r=1, times 180/pi, in absolute value: the      *)
(* angle between p3 and the great circle through p1 and p2.  For p3 = p1    *)
(* delta13 is 0 and for p3 = p2 the two bearings are equal.                 *)
CrossTrackDistance(p3, p1, p2) ==
    IF p3 = p1 \/ p3 = p2 THEN 0
    ELSE IF p1[2] = 0 /\ p2[2] = 0 THEN Abs(p3[2])
    ELSE IF p3[2] = 90 THEN 0
    ELSE Abs(p3[1] - (IF p1[2] = 0 THEN p1[1] ELSE p2[1]))

(* point_line_distance *)
PointLineDistance(point, start, end) ==
    IF start = end THEN GreatCircleDistance(point, start)
    ELSE CrossTrackDistance(point, start, end)

(* A faulty range(1, len(trackpoints) - 2) for line 55. *)
LastInteriorShort(tp) == Len(tp) - 3

(* Line 55: the last index of range(1, len(trackpoints) - 1). *)
LastInterior(tp) == Len(tp) - 2

(* Lines 61-63, d being the distance of point i. *)
Farther(far, i, d) ==
    IF d > far.dmax THEN [index |-> i, dmax |-> d] ELSE far

(* The loop of lines 55-63 from index i on. *)
RECURSIVE Farthest(_, _, _)
Farthest(tp, i, far) ==
    IF i > LastInterior(tp) THEN far
    ELSE Farthest(tp, i + 1,
                  Farther(far, i,
                          PointLineDistance(Coord(At(tp, i)), Coord(At(tp, 0)),
                                            Coord(Last(tp)))))

(* A faulty variant of lines 66-69 that cuts the last point of both halves. *)
RdpJoinCutBoth(a, b) ==
    IF a.kind # "ok" THEN a
    ELSE IF b.kind # "ok" THEN b
    ELSE [kind |-> "ok",
          points |-> Slice(a.points, 0, Len(a.points) - 1)
                     \o Slice(b.points, 0, Len(b.points) - 1)]

(* Lines 66-69: a[:-1] + b, a and b being the results of the two halves. *)
RdpJoin(a, b) ==
    IF a.kind # "ok" THEN a
    ELSE IF b.kind # "ok" THEN b
    ELSE [kind |-> "ok",
          points |-> Slice(a.points, 0, Len(a.points) - 1) \o b.points]

(* rdp_spherical; far is the result of the loop of lines 53-63.  The        *)
(* tolerance is not negative, so the halves of lines 67-68 are shorter      *)
(* than trackpoints.                                                        *)
RECURSIVE RdpSpherical(_, _)
RECURSIVE RdpResults(_, _, _)
RdpResults(tp, eps, far) ==
    IF far.dmax > eps
    THEN RdpJoin(RdpSpherical(Slice(tp, 0, far.index + 1), eps),
                 RdpSpherical(Slice(tp, far.index, Len(tp)), eps))
    ELSE IF tp = <<>> THEN [kind |-> "IndexError"]
    ELSE [kind |-> "ok", points |-> <<At(tp, 0), Last(tp)>>]

RdpSpherical(tp, eps) ==
    RdpResults(tp, eps, Farthest(tp, 1, [index |-> 0, dmax |-> 0]))

(* The points and tolerances rdp_spherical is given.  Every trackpoint has  *)
(* its own time.                                                            *)
RdpCoords == {<<0, 0>>, <<2, 0>>, <<4, 0>>, <<0, 90>>}
Epsilons == {0, 1, 3}
RdpInputs ==
    UNION {{[i \in 1..n |-> [longitude |-> c[i][1], latitude |-> c[i][2],
                             time |-> i]] : c \in [1..n -> RdpCoords]} :
             n \in 0..MaxRdp}

(* Every variable of the import at rest. *)
NoImport ==
    /\ storeExists = FALSE
    /\ store = <<>>
    /\ skew = 0
    /\ backupFile = NoBackup
    /\ min_points = 1
    /\ log = "none"
    /\ gf = NoFile
    /\ pc = "idle"
    /\ gpx_files = <<>>
    /\ out = <<>>
    /\ err = "none"
    /\ lastOp = "init"
    /\ storeBefore = <<>>
    /\ backupBefore = NoBackup
    /\ arg = <<>>
    /\ lastBatch = NoBatch
    /\ repeat = FALSE
    /\ loaded = 0
    /\ coords = <<>>
    /\ geometry = [kind |-> "None"]

InitRdp ==
    /\ NoImport
    /\ trackpoints \in RdpInputs
    /\ epsilon \in Epsilons
    /\ results = Unset
    /\ SplitIdle
    /\ MergeIdle
    /\ SpeedIdle
    /\ TravelIdle
    /\ MoreIdle

(* simplify, line 44: rdp_spherical(segment.points, epsilon) *)
Simplify ==
    /\ results = Unset
    /\ results' = RdpSpherical(trackpoints, epsilon)
    /\ UNCHANGED <<importVars, geomVars, trackpoints, epsilon, splitVars,
                   mergeVars, speedVars, travelVars, moreVars>>

NextRdp == Simplify

SpecRdp == InitRdp /\ [][NextRdp]_vars

----------------------------------------------------------------------------
(* split_gpx_time.py and GPXFile._trk_merge_trksegs.  A segment is its      *)
(* list of points; only the times of the points matter here.                *)

SegOf(times) == [points |-> [i \in 1..Len(times) |-> Pt(times[i])]]

(* list[a:b]: a slice stops at the end of the list. *)
SliceTo(s, a, b) == Slice(s, a, IF b > Len(s) THEN Len(s) ELSE b)

(* A faulty test of line 60 that wants more than the threshold. *)
IsGapStrict(delta, thr) == delta > thr

(* Line 60: (next_p.time - cur_p.time).total_seconds() >= threshold *)
IsGap(delta, thr) == delta >= thr

(* Lines 56-61: the keys of gaps, the 0-based indexes just behind a gap. *)
GapKeys(points, thr) ==
    SelectSeq([pn \in 1..(Len(points) - 1) |-> pn],
              LAMBDA pn : IsGap(points[pn + 1].time - points[pn].time, thr))

(* Lines 67-73: the slices segment.points[s:e]. *)
SplitTrksegs(points, starts, ends) ==
    [j \in 1..Len(starts) |->
       [points |-> SliceTo(points, starts[j], ends[j])]]

(* Lines 56-92 for one segment, keys being the keys of gaps. *)
SplitSegment(seg, keys) ==
    IF Len(keys) = 0 THEN <<seg>>
    ELSE SplitTrksegs(seg.points, <<0>> \o keys,
                      keys \o <<Len(seg.points) + 1>>)

(* trk_split_trksegs *)
TrkSplitTrksegs(segs, thr) ==
    [kind |-> "ok",
     trksegs |-> Flatten([sn \in 1..Len(segs) |->
                   SplitSegment(segs[sn], GapKeys(segs[sn].points, thr))])]

(* A faulty variant of lines 149-150 that deletes b without extending a. *)
MergedPairDropping(a, b) == a

(* Lines 149-150: a.points.extend(b.points) *)
MergedPair(a, b) == [points |-> a.points \o b.points]

(* del trksegs[index+1], with a extended *)
MergeAt(segs, index) ==
    [j \in 1..(Len(segs) - 1) |->
       IF j < index + 1 THEN segs[j]
       ELSE IF j = index + 1
       THEN MergedPair(At(segs, index), At(segs, index + 1))
       ELSE segs[j + 1]]

(* GPXFile._trk_merge_trksegs.  Taking points[0] or points[-1] of a segment *)
(* without points raises IndexError, which line 154 does not catch.         *)
RECURSIVE TrkMergeTrksegs(_, _, _)
TrkMergeTrksegs(segs, index, maxs) ==
    IF index = 0 /\ Len(segs) = 0 THEN [kind |-> "ok", trksegs |-> segs]
    ELSE IF index + 1 = Len(segs) THEN [kind |-> "ok", trksegs |-> segs]
    ELSE IF At(segs, index + 1).points = <<>> \/ At(segs, index).points = <<>>
    THEN [kind |-> "IndexError"]
    ELSE IF At(segs, index + 1).points[1].time
            - Last(At(segs, index).points).time <= maxs
    THEN TrkMergeTrksegs(MergeAt(segs, index), index, maxs)
    ELSE TrkMergeTrksegs(segs, index + 1, maxs)

(* The segments trk_split_trksegs is given: the times of the points of a    *)
(* segment start at 0 and go on by steps of -1..MaxGap seconds.             *)
RECURSIVE TimesFrom(_, _)
TimesFrom(t, deltas) ==
    IF deltas = <<>> THEN <<t>>
    ELSE <<t>> \o TimesFrom(t + Head(deltas), Tail(deltas))

SplitSegments ==
    {SegOf(<<>>)}
    \cup UNION {{SegOf(TimesFrom(0, d)) : d \in [1..n -> (-1)..MaxGap]} :
                  n \in 0..(MaxSegPts - 1)}
SplitInputs == {<<a>> : a \in SplitSegments}
               \cup {<<a, SegOf(<<0, MaxGap>>)>> : a \in SplitSegments}
Thresholds == 1..MaxGap

InitSplit ==
    /\ NoImport
    /\ RdpIdle
    /\ segments \in SplitInputs
    /\ threshold \in Thresholds
    /\ updated_trksegs = Unset
    /\ MergeIdle
    /\ SpeedIdle
    /\ TravelIdle
    /\ MoreIdle

(* split_gpx, line 45: trk_split_trksegs(track.segments, threshold) *)
Split ==
    /\ updated_trksegs = Unset
    /\ updated_trksegs' = TrkSplitTrksegs(segments, threshold)
    /\ UNCHANGED <<importVars, geomVars, rdpVars, segments, threshold,
                   mergeVars, speedVars, travelVars, moreVars>>

(* _trk_merge_trksegs on the segments trk_split_trksegs returned *)
MergeSplit ==
    /\ updated_trksegs # Unset
    /\ merged = Unset
    /\ trksegs' = updated_trksegs.trksegs
    /\ max_seconds' \in Thresholds
    /\ merged' = TrkMergeTrksegs(trksegs', 0, max_seconds')
    /\ UNCHANGED <<importVars, geomVars, rdpVars, splitVars, speedVars,
                   travelVars, moreVars>>

NextSplit == Split \/ MergeSplit

SpecSplit == InitSplit /\ [][NextSplit]_vars

(* The lists _trk_merge_trksegs is given: up to MaxSegs segments of no,     *)
(* one or two points each, in any order.                                    *)
MergeSegments ==
    {SegOf(<<>>)}
    \cup {SegOf(<<t>>) : t \in 0..MaxClock}
    \cup {SegOf(<<t, t + 1>>) : t \in 0..MaxClock}
MergeInputs == UNION {[1..n -> MergeSegments] : n \in 0..MaxSegs}

InitMerge ==
    /\ NoImport
    /\ RdpIdle
    /\ SplitIdle
    /\ trksegs \in MergeInputs
    /\ max_seconds \in 0..MaxGap
    /\ merged = Unset
    /\ SpeedIdle
    /\ TravelIdle
    /\ MoreIdle

(* GarminGPXFile.process, line 270: self._trk_merge_trksegs(trk.segments) *)
Merge ==
    /\ merged = Unset
    /\ merged' = TrkMergeTrksegs(trksegs, 0, max_seconds)
    /\ UNCHANGED <<importVars, geomVars, rdpVars, splitVars, trksegs,
                   max_seconds, speedVars, travelVars, moreVars>>

NextMerge == Merge

SpecMerge == InitMerge /\ [][NextMerge]_vars

----------------------------------------------------------------------------
(* filter_speed.py.  A trackpoint carries its speed extension as a list of  *)
(* no or one whole number; a missing value (None, NaN) is the empty list.   *)
(* A median is kept doubled, so that the mean of the two middle values of   *)
(* an even window stays a whole number.                                     *)

NaN == <<>>

(* Lines 19-30: the tags of the speed elements, by profile *)
SPEED_TAGS(prof) ==
    IF prof = "garmin" THEN {"garmin:speed"}
    ELSE IF prof = "mytracks" THEN {"mytracks:speed"}
    ELSE IF prof = "bad_elf" THEN {"bad_elf:speed", "bad_elf_v1:speed"}
    ELSE {}

(* An element of the extensions of a point, or a child of one. *)
Element(tag, text, children) ==
    [tag |-> tag, text |-> text, children |-> children]

(* The first of a list of elements with one of the tags, as a list of no or *)
(* one element: extensions[0].find(tag), next((e for e in ...), None).     *)
FirstTagged(elems, tags) ==
    IF \A i \in 1..Len(elems) : elems[i].tag \notin tags THEN <<>>
    ELSE <<elems[SetMin({i \in 1..Len(elems) : elems[i].tag \in tags})]>>

(* Lines 155-157 *)
SpeedOf(found) ==
    [kind |-> "ok", speed |-> IF found = <<>> THEN NaN ELSE found[1].text]

(* get_speed *)
GetSpeed(point, prof) ==
    IF prof = "garmin"
    THEN (IF point.extensions = <<>> THEN [kind |-> "IndexError"]
          ELSE SpeedOf(FirstTagged(point.extensions[1].children,
                                   SPEED_TAGS(prof))))
    ELSE IF prof \in {"bad_elf", "mytracks"}
    THEN SpeedOf(FirstTagged(point.extensions, SPEED_TAGS(prof)))
    ELSE SpeedOf(<<>>)

(* Line 108 *)
SpeedList(tp, prof) == [i \in 1..Len(tp) |-> GetSpeed(tp[i], prof).speed]

(* The k-th smallest of a list of numbers. *)
KthSmallest(vals, k) ==
    CHOOSE v \in Range(vals) :
       /\ Cardinality({i \in 1..Len(vals) : vals[i] < v}) < k
       /\ Cardinality({i \in 1..Len(vals) : vals[i] <= v}) >= k

(* Twice the median of a list of numbers. *)
Median2(vals) ==
    IF Len(vals) % 2 = 1 THEN 2 * KthSmallest(vals, (Len(vals) + 1) \div 2)
    ELSE KthSmallest(vals, Len(vals) \div 2)
         + KthSmallest(vals, Len(vals) \div 2 + 1)

(* .rolling(window).median() for the window of rows lo..hi: NaN unless the  *)
(* window lies inside the series and every row of it has a value.           *)
WindowMedian(speeds, lo, hi) ==
    IF lo < 1 \/ hi > Len(speeds) THEN NaN
    ELSE IF \E i \in lo..hi : speeds[i] = NaN THEN NaN
    ELSE <<Median2([i \in 1..(hi - lo + 1) |-> speeds[lo + i - 1][1]])>>

(* Lines 115-116: .rolling(rolling_window, center=True).median() *)
RollingCenter(speeds, w, i) ==
    WindowMedian(speeds, i + (w - 1) \div 2 - w + 1, i + (w - 1) \div 2)

(* Lines 124-125: .rolling(rolling_window).median() *)
RollingForward(speeds, w, i) == WindowMedian(speeds, i - w + 1, i)

(* Lines 126-127: the rolling median of the reversed series, which the      *)
(* assignment to the column aligns on the index again.                      *)
RollingBackward(speeds, w, i) == WindowMedian(speeds, i, i + w - 1)

(* A faulty comparison that keeps the medians at or below the minimum. *)
AboveThresholdInverted(rolling, mult, m) ==
    rolling # NaN /\ rolling[1] * mult <= 2 * m

(* Lines 110, 118, 130-131: speed * multiplier >= min_speed_m_s; a          *)
(* comparison with NaN is false.                                            *)
AboveThreshold(rolling, mult, m) ==
    rolling # NaN /\ rolling[1] * mult >= 2 * m

(* Lines 113-132: the index of above_threshold *)
AboveIndex(speeds, w, meth, mult, m) ==
    IF meth = "center"
    THEN {i \in 1..Len(speeds) : AboveThreshold(RollingCenter(speeds, w, i), mult, m)}
    ELSE {i \in 1..Len(speeds) :
            \/ AboveThreshold(RollingForward(speeds, w, i), mult, m)
            \/ AboveThreshold(RollingBackward(speeds, w, i), mult, m)}

(* Lines 134-137: the trackpoints at the rows of an index, in row order *)
PointsAt(tp, index) == SelectSeq(tp, LAMBDA pt : pt.time \in index)

(* filter_speed.  When no point has a speed the column holds None objects   *)
(* and the multiplication of line 110 raises TypeError.                     *)
FilterSpeed(tp, m, w, meth, prof, mult) ==
    IF \E i \in 1..Len(tp) : GetSpeed(tp[i], prof).kind # "ok"
    THEN [kind |-> "IndexError"]
    ELSE IF \A i \in 1..Len(tp) : GetSpeed(tp[i], prof).speed = NaN
    THEN [kind |-> "TypeError"]
    ELSE [kind |-> "ok",
          points |-> PointsAt(tp, AboveIndex(SpeedList(tp, prof), w, meth, mult, m))]

(* The inputs of filter_speed: the time of a point is its row. *)
SpeedValues ==
    {<<>>} \cup {<<Element("mytracks:speed", <<v>>, <<>>)>> : v \in 0..2}
SpeedInputs ==
    UNION {{[i \in 1..n |-> [time |-> i, extensions |-> e[i]]] :
              e \in [1..n -> SpeedValues]} : n \in 1..MaxSpeedPts}
RollingWindows == {1, 2, 3}
MinSpeeds == {1, 2, 3}

InitSpeed ==
    /\ NoImport
    /\ RdpIdle
    /\ SplitIdle
    /\ MergeIdle
    /\ speed_trackpoints \in SpeedInputs
    /\ rolling_window \in RollingWindows
    /\ method \in {"center", "extended"}
    /\ profile \in {"mytracks", "_default"}
    /\ speed_multiplier \in {1, 2}
    /\ speed_runs = {}
    /\ TravelIdle
    /\ MoreIdle

(* trk_filter_speed, lines 86-92: one call of filter_speed *)
CallFilterSpeed(m) ==
    /\ Cardinality(speed_runs) < 2
    /\ \A r \in speed_runs : r.min_speed_m_s # m
    /\ speed_runs' = speed_runs \cup
         {[min_speed_m_s |-> m,
           filtered_trackpoints |->
             FilterSpeed(speed_trackpoints, m, rolling_window, method,
                         profile, speed_multiplier)]}
    /\ UNCHANGED <<importVars, geomVars, rdpVars, splitVars, mergeVars,
                   speed_trackpoints, rolling_window, method, profile,
                   speed_multiplier, travelVars, moreVars>>

NextSpeed == \E m \in MinSpeeds : CallFilterSpeed(m)

SpecSpeed == InitSpeed /\ [][NextSpeed]_vars

(* The points get_speed is given: up to MaxExt extension elements, each a   *)
(* speed element of a profile, another element, or a wrapper with children. *)
SpeedTexts == {NaN, <<0>>, <<1>>}
ChildLists ==
    {<<>>, <<Element("other", NaN, <<>>)>>}
    \cup {<<Element("garmin:speed", t, <<>>)>> : t \in SpeedTexts}
ExtElements ==
    {Element(tag, t, <<>>) : tag \in {"mytracks:speed", "bad_elf:speed"},
                             t \in SpeedTexts}
    \cup {Element("other", NaN, <<>>)}
    \cup {Element("TrackPointExtension", NaN, c) : c \in ChildLists}
ExtensionLists == UNION {[1..n -> ExtElements] : n \in 0..MaxExt}
Profiles == {"garmin", "bad_elf", "mytracks", "_default"}

InitExtract ==
    /\ NoImport
    /\ RdpIdle
    /\ SplitIdle
    /\ MergeIdle
    /\ speed_trackpoints = <<>>
    /\ rolling_window = 1
    /\ method = "center"
    /\ profile \in Profiles
    /\ speed_multiplier = 1
    /\ speed_runs = {}
    /\ TravelIdle
    /\ extensions \in ExtensionLists
    /\ speed = Unset
    /\ TimelogIdle
    /\ ProcessIdle

(* filter_speed, line 108: get_speed(point, profile) *)
ExtractSpeed ==
    /\ speed = Unset
    /\ speed' = GetSpeed([extensions |-> extensions], profile)
    /\ UNCHANGED <<importVars, geomVars, rdpVars, splitVars, mergeVars,
                   speedVars, travelVars, extensions, timelogVars,
                   processVars>>

NextExtract == ExtractSpeed

SpecExtract == InitExtract /\ [][NextExtract]_vars

----------------------------------------------------------------------------
(* filter_timelog.py.  A timelog segment has a start_utc and a stop_utc,    *)
(* each a list of one time, or empty for the missing time (NaT) that lines  *)
(* 128-134 give the start of the first and the stop of the last segment.    *)

NaT == <<>>

Timeseg(start, stop) == [start_utc |-> start, stop_utc |-> stop]

(* Lines 78-79 and 142-143; a comparison with NaT is false. *)
OverlapsRange(timeseg, first_time, last_time) ==
    /\ timeseg.stop_utc # NaT
    /\ timeseg.start_utc # NaT
    /\ timeseg.stop_utc[1] > first_time
    /\ timeseg.start_utc[1] < last_time

(* Lines 77-80 *)
TimesegsWithinSegment(seg, tsegs) ==
    SelectSeq(tsegs, LAMBDA ts : OverlapsRange(ts, seg.points[1].time,
                                               Last(seg.points).time))

(* Lines 90-96 *)
TimesegPoints(seg, timeseg) ==
    SelectSeq(seg.points,
              LAMBDA pt : /\ timeseg.start_utc # NaT
                          /\ timeseg.stop_utc # NaT
                          /\ pt.time >= timeseg.start_utc[1]
                          /\ pt.time <= timeseg.stop_utc[1])

(* Lines 88-102: a new segment for each timelog segment that has points *)
TimesegSegments(seg, tsegs) ==
    SelectSeq([k \in 1..Len(tsegs) |-> [points |-> TimesegPoints(seg, tsegs[k])]],
              LAMBDA sg : Len(sg.points) > 0)

(* A faulty variant of lines 81-85 that raises whatever the flag. *)
NoOverlapAlwaysRaises(raise) == [kind |-> "NoTimelogOverlapError"]

(* Lines 81-85 *)
NoOverlap(raise) ==
    IF raise THEN [kind |-> "NoTimelogOverlapError"]
    ELSE [kind |-> "ok", segments |-> <<>>]

(* trkseg_filter_timelog *)
TrksegFilterTimelog(seg, tsegs, raise) ==
    IF seg.points = <<>> THEN [kind |-> "IndexError"]
    ELSE IF Len(TimesegsWithinSegment(seg, tsegs)) = 0 THEN NoOverlap(raise)
    ELSE [kind |-> "ok", segments |-> TimesegSegments(seg, tsegs)]

(* Lines 49-62, filtered being the results for the segments in order: the   *)
(* first exception ends the loop.                                           *)
FilteredTrack(filtered) ==
    IF \E sn \in 1..Len(filtered) : filtered[sn].kind # "ok"
    THEN [kind |-> filtered[SetMin({sn \in 1..Len(filtered) :
                                      filtered[sn].kind # "ok"})].kind]
    ELSE [kind |-> "ok",
          segments |-> Flatten([sn \in 1..Len(filtered) |-> filtered[sn].segments])]

(* trk_filter_timelog *)
TrkFilterTimelog(trk, tsegs, raise) ==
    FilteredTrack([sn \in 1..Len(trk.segments) |->
                     TrksegFilterTimelog(trk.segments[sn], tsegs, raise)])

(* The inputs: tracks of one or two segments with point times 0..3, and     *)
(* timelogs of one or two segments in ascending order.                      *)
LogTimes == 0..3
LogSegments ==
    UNION {{SegOf(t) : t \in [1..n -> LogTimes]} : n \in 1..MaxLogPts}
LogTracks ==
    {[segments |-> <<a>>] : a \in LogSegments}
    \cup {[segments |-> <<a, b>>] :
            a \in LogSegments, b \in {SegOf(<<0, 1>>), SegOf(<<3>>)}}
Timelogs ==
    {<<Timeseg(<<a>>, <<b>>)>> : a \in LogTimes, b \in LogTimes}
    \cup {<<Timeseg(NaT, <<b>>)>> : b \in LogTimes}
    \cup {<<Timeseg(<<a>>, NaT)>> : a \in LogTimes}
    \cup {<<Timeseg(<<0>>, <<b>>), Timeseg(<<c>>, <<3>>)>> :
            b \in LogTimes, c \in LogTimes}
    \cup {<<Timeseg(NaT, <<1>>), Timeseg(<<c>>, NaT)>> : c \in LogTimes}

InitTimelog ==
    /\ NoImport
    /\ RdpIdle
    /\ SplitIdle
    /\ MergeIdle
    /\ SpeedIdle
    /\ TravelIdle
    /\ ExtractIdle
    /\ timelog_track \in LogTracks
    /\ timesegs \in {t \in Timelogs :
                       \A k \in 1..Len(t) :
                          /\ t[k].start_utc # NaT /\ t[k].stop_utc # NaT
                               => t[k].start_utc[1] <= t[k].stop_utc[1]
                          /\ k > 1 => t[k - 1].stop_utc[1] <= t[k].start_utc[1]}
    /\ raise_exception \in BOOLEAN
    /\ filtered_track = Unset
    /\ ProcessIdle

(* MyTracksGPXFile.process, lines 312-314, and gpx_filter_timelog, line 40 *)
FilterTimelog ==
    /\ filtered_track = Unset
    /\ filtered_track' = TrkFilterTimelog(timelog_track, timesegs, raise_exception)
    /\ UNCHANGED <<importVars, geomVars, rdpVars, splitVars, mergeVars,
                   speedVars, travelVars, extractVars, timelog_track, timesegs,
                   raise_exception, processVars>>

NextTimelog == FilterTimelog

SpecTimelog == InitTimelog /\ [][NextTimelog]_vars

----------------------------------------------------------------------------
(* remove_outliers.py: trkseg_remove_time_travel.  Indexes are 0-based as   *)
(* in the source.                                                           *)

MAX_TIME_TRAVEL_LEN == 60

Max(a, b) == IF a >= b THEN a ELSE b

(* A faulty start of a slice that stops at the beginning of the list. *)
SliceStartClamped(a, n) == IF a < 0 THEN 0 ELSE a

(* list[a:b]: a negative start counts from the end of the list. *)
SliceStart(a, n) == IF a < 0 THEN Max(n + a, 0) ELSE a

(* list[a:b] for any a and b >= 0; empty when the start is not before b. *)
PySlice(s, a, b) ==
    IF SliceStart(a, Len(s)) >= b THEN <<>>
    ELSE SliceTo(s, SliceStart(a, Len(s)), b)

Times(points) == [i \in 1..Len(points) |-> points[i].time]

(* Lines 67-72 *)
BacktimeIndexes(times) ==
    {i + 1 : i \in {k \in 0..(Len(times) - 2) : At(times, k) > At(times, k + 1)}}

(* range(from, from + count) for the first count of a search, or nothing    *)
(* when the search ends with StopIteration.                                 *)
CountedFromOrAll(from, counts) ==
    IF counts = {} THEN from..(from + MAX_TIME_TRAVEL_LEN - 1)
    ELSE from..(from + SetMin(counts) - 1)

CountedFrom(from, counts) ==
    IF counts = {} THEN {} ELSE from..(from + SetMin(counts) - 1)

CountedUpTo(to, counts) ==
    IF counts = {} THEN {} ELSE (to - SetMin(counts))..(to - 1)

(* Lines 84-92: the positions of the slice with a later time than the prior *)
(* good point.                                                              *)
LaterIn(window, t) == {j \in 0..(Len(window) - 1) : At(window, j) > t}

BackwardTravel(times, bti) ==
    CountedFrom(bti,
        LaterIn(PySlice(times, bti, Max(bti + MAX_TIME_TRAVEL_LEN, Len(times))),
                At(times, bti - 1)))

(* Lines 103-111: the positions of the reversed slice with an earlier time  *)
(* than the current good point.                                             *)
EarlierInReversed(window, t) ==
    {j \in 0..(Len(window) - 1) : At(window, Len(window) - 1 - j) < t}

ForwardTravel(times, bti) ==
    CountedUpTo(bti,
        EarlierInReversed(PySlice(times, bti - MAX_TIME_TRAVEL_LEN, bti),
                          At(times, bti)))

(* Lines 74-113: outliers_time_travel *)
OutliersTimeTravel(times) ==
    UNION {BackwardTravel(times, bti) \cup ForwardTravel(times, bti) :
             bti \in BacktimeIndexes(times)}

(* Lines 135-138: the points whose index is not an outlier, in order *)
RECURSIVE Without(_, _, _)
Without(points, i, outliers) ==
    IF i >= Len(points) THEN <<>>
    ELSE (IF i \in outliers THEN <<>> ELSE <<At(points, i)>>)
         \o Without(points, i + 1, outliers)

(* trkseg_remove_time_travel *)
TrksegRemoveTimeTravel(seg) ==
    [kind |-> "ok",
     points |-> Without(seg.points, 0, OutliersTimeTravel(Times(seg.points)))]

(* trkseg_remove_teleportation.  Longitudes are whole thousandths of a      *)
(* degree on the equator, where the geodesic distance of two points is      *)
(* 111319 metres for each degree between them.                              *)

MAX_TELEPORT_LEN == 60
SPEED_THRESHOLD == 250
MilliMetresPerMilliDegree == 111319

Min(a, b) == IF a <= b THEN a ELSE b

(* distance(...).meters, in thousandths of a metre *)
DistanceMm(p1, p2) == Abs(p2.longitude - p1.longitude) * MilliMetresPerMilliDegree

(* speed_m_s(p1, p2) >= SPEED_THRESHOLD: the speed is 0 when the times are  *)
(* equal, and dist / timediff otherwise, which is not positive when p2 is   *)
(* the earlier point.                                                       *)
Speeding(p1, p2) ==
    /\ p2.time - p1.time > 0
    /\ DistanceMm(p1, p2) >= SPEED_THRESHOLD * 1000 * (p2.time - p1.time)

(* Lines 147-152 *)
PointsBeforeSpeeding(points) ==
    {i \in 0..(Len(points) - 2) : Speeding(At(points, i), At(points, i + 1))}

(* Lines 166-172: the j of the window that are not teleporting *)
NotTeleporting(points, i_pbs) ==
    {j \in 1..(Min(MAX_TELEPORT_LEN, Len(points) - i_pbs) - 1) :
       ~Speeding(At(points, i_pbs), At(points, i_pbs + j))}

(* A faulty range that removes the point found as well. *)
TeleportIndexesInclusive(i_pbs, js) ==
    IF js = {} THEN {} ELSE (i_pbs + 1)..(i_pbs + SetMin(js))

(* Lines 165-177: range(i_pbs+1, i_pbs+teleport_count+1) with               *)
(* teleport_count the first such j less one; nothing on StopIteration.      *)
TeleportIndexes(i_pbs, js) ==
    IF js = {} THEN {} ELSE (i_pbs + 1)..(i_pbs + (SetMin(js) - 1))

(* Lines 160-177: outliers_teleportation *)
OutliersTeleportation(points) ==
    UNION {TeleportIndexes(i_pbs, NotTeleporting(points, i_pbs)) :
             i_pbs \in PointsBeforeSpeeding(points)}

TrksegRemoveTeleportation(seg) ==
    [kind |-> "ok",
     points |-> Without(seg.points, 0, OutliersTeleportation(seg.points))]

(* The segments given: points one step of time apart, of which a run of up  *)
(* to MaxTravel points from index a on carries a clock value that is lag    *)
(* seconds earlier than the point before the run.                           *)
SegmentLengths == {1, 3, 100}
Steps == {1, 20}
Lags == {10}

TravelTime(i, step, a, k, lag) ==
    IF i >= a /\ i < a + k THEN (a - 1) * step - lag ELSE i * step

TravelSegment(n, step, a, k, lag) ==
    [points |-> [i \in 1..n |->
       [time |-> TravelTime(i - 1, step, a, k, lag),
        longitude |-> i - 1, latitude |-> 0]]]

LongRuns == {59, 60, 70}
Jumps == {10, 1000}

(* The segments with a teleportation: points one second and one thousandth  *)
(* of a degree apart, of which a run from index a on is displaced.          *)
TeleportSegment(n, a, k, jump) ==
    [points |-> [i \in 1..n |->
       [time |-> i - 1,
        longitude |-> IF i - 1 >= a /\ i - 1 < a + k THEN i - 1 + jump ELSE i - 1,
        latitude |-> 0]]]

TeleportInputs ==
    {TeleportSegment(n, a, k, jump) :
       n \in SegmentLengths, a \in 1..SetMax(SegmentLengths),
       k \in (1..MaxTravel) \cup LongRuns, jump \in Jumps}

TravelInputs ==
    {TravelSegment(n, step, a, k, lag) :
       n \in SegmentLengths, step \in Steps, a \in 1..SetMax(SegmentLengths),
       k \in (0..MaxTravel) \cup LongRuns, lag \in Lags}

InitTravel ==
    /\ NoImport
    /\ RdpIdle
    /\ SplitIdle
    /\ MergeIdle
    /\ SpeedIdle
    /\ segment \in TravelInputs \cup TeleportInputs
    /\ travelled = Unset
    /\ teleported = Unset
    /\ MoreIdle

(* trk_remove_outliers, lines 53-55 *)
RemoveTimeTravel ==
    /\ travelled = Unset
    /\ travelled' = TrksegRemoveTimeTravel(segment)
    /\ UNCHANGED <<importVars, geomVars, rdpVars, splitVars, mergeVars,
                   speedVars, segment, teleported, moreVars>>

(* trk_remove_outliers, lines 56-58, on the segment the time-travel pass    *)
(* left                                                                     *)
RemoveTeleportation ==
    /\ travelled # Unset
    /\ teleported = Unset
    /\ teleported' = TrksegRemoveTeleportation(travelled)
    /\ UNCHANGED <<importVars, geomVars, rdpVars, splitVars, mergeVars,
                   speedVars, segment, travelled, moreVars>>

NextTravel == RemoveTimeTravel \/ RemoveTeleportation

SpecTravel == InitTravel /\ [][NextTravel]_vars

----------------------------------------------------------------------------
(* GPXFile.py: process of the four device profiles, for a file of one       *)
(* track.  A point has a time in seconds, a longitude in thousandths of a   *)
(* degree on the equator and its extensions.  cfg is what config.toml gives *)
(* the profile.                                                             *)

ImportConfig ==
    [min_points |-> 2, threshold |-> 3, max_seconds |-> 1, epsilon |-> 0,
     min_speed_m_s |-> 1, rolling_window |-> 1, method |-> "center",
     speed_multiplier |-> 1]

(* The results of a stage for the segments of a track in order: the first   *)
(* exception ends the stage.                                                *)
FirstFailure(rs) ==
    [kind |-> rs[SetMin({sn \in 1..Len(rs) : rs[sn].kind # "ok"})].kind]
AllOk(rs) == \A sn \in 1..Len(rs) : rs[sn].kind = "ok"

(* GPXFile._trk_remove_ignored, for a track whose time range is range *)
TrkRemoveIgnored(trk, ign, range) ==
    IF range.kind # "ok" THEN [kind |-> range.kind]
    ELSE IF range.min_time \in ign.trk
    THEN [kind |-> "ok", segments |-> <<>>]
    ELSE [kind |-> "ok",
          segments |-> SelectSeq(trk.segments,
                                 LAMBDA sg : sg.points[1].time \notin ign.trkseg)]

(* remove_outliers.trk_remove_outliers: both passes on every segment *)
TrkRemoveOutliers(trk) ==
    [kind |-> "ok",
     segments |-> [sn \in 1..Len(trk.segments) |->
        [points |-> TrksegRemoveTeleportation(
                       [points |-> TrksegRemoveTimeTravel(trk.segments[sn]).points]
                    ).points]]]

(* Lines 81-92 of filter_speed.trk_filter_speed, for one segment *)
SegmentFilterSpeed(seg, cfg, prof) ==
    IF Len(seg.points) < cfg.rolling_window
    THEN [kind |-> "ok", points |-> seg.points]
    ELSE FilterSpeed(seg.points, cfg.min_speed_m_s, cfg.rolling_window,
                     cfg.method, prof, cfg.speed_multiplier)

(* Lines 80-97, rs being the results for the segments *)
SpeedFiltered(rs) ==
    IF ~AllOk(rs) THEN FirstFailure(rs)
    ELSE [kind |-> "ok",
          segments |-> [sn \in 1..Len(rs) |-> [points |-> rs[sn].points]]]

(* filter_speed.trk_filter_speed *)
TrkFilterSpeed(trk, cfg, prof) ==
    SpeedFiltered([sn \in 1..Len(trk.segments) |->
                     SegmentFilterSpeed(trk.segments[sn], cfg, prof)])

(* filter_timelog.timelog_overlaps_range *)
TimelogOverlapsRange(tsegs, range) ==
    \E k \in 1..Len(tsegs) : OverlapsRange(tsegs[k], range.min_time, range.max_time)

(* simplify_gpx.trkseg_simplify: the segment with the points that the       *)
(* spherical simplification of its points keeps.                            *)
SimplifiedTrkseg(r) ==
    IF r.kind # "ok" THEN r ELSE [kind |-> "ok", trkseg |-> [points |-> r.points]]
TrksegSimplify(trkseg, eps) == SimplifiedTrkseg(RdpSpherical(trkseg.points, eps))

(* The coordinates of the points of a segment in degrees. *)
InDegrees(trkseg) ==
    [points |-> [i \in 1..Len(trkseg.points) |->
                   [time |-> trkseg.points[i].time,
                    longitude |-> Rat(trkseg.points[i].longitude, 1000),
                    latitude |-> R(0)]]]

(* A faulty variant of lines 178-183 that keys a DrivingTrack by the start  *)
(* of its own segment.                                                      *)
AppendDrivingTrackOwnStart(dts, trkseg, timestamp, cfg, creator) ==
    TrksegAppendDrivingTrack(dts, InDegrees(trkseg), trkseg.points[1].time,
                             cfg.min_points, creator)

(* GPXFile._trkseg_append_driving_track *)
AppendDrivingTrack(dts, trkseg, timestamp, cfg, creator) ==
    TrksegAppendDrivingTrack(dts, InDegrees(trkseg), timestamp,
                             cfg.min_points, creator)

(* The loops of lines 227-238, 274-276 and 328-339 from segment j on: simp  *)
(* tells whether the segment is simplified before it is appended.           *)
RECURSIVE AppendFrom(_, _, _, _, _, _, _)
RECURSIVE AppendedNext(_, _, _, _, _, _, _)
RECURSIVE AppendSimplified(_, _, _, _, _, _, _, _)
AppendedNext(r, segs, j, timestamp, cfg, creator, simp) ==
    IF r.kind # "ok" THEN r
    ELSE AppendFrom(r.driving_tracks, segs, j + 1, timestamp, cfg, creator, simp)

AppendSimplified(dts, segs, j, timestamp, cfg, creator, simp, r) ==
    IF r.kind # "ok" THEN [kind |-> r.kind, driving_tracks |-> dts]
    ELSE AppendedNext(AppendDrivingTrack(dts, r.trkseg, timestamp, cfg, creator),
                      segs, j, timestamp, cfg, creator, simp)

AppendFrom(dts, segs, j, timestamp, cfg, creator, simp) ==
    IF j > Len(segs) THEN [kind |-> "ok", driving_tracks |-> dts]
    ELSE AppendSimplified(dts, segs, j, timestamp, cfg, creator, simp,
                          IF simp THEN TrksegSimplify(segs[j], cfg.epsilon)
                          ELSE [kind |-> "ok", trkseg |-> segs[j]])

(* The end of the body of the loop over the tracks: r is the result of the  *)
(* stages before the segments are appended.                                 *)
StagesAppended(obj, r, timestamp, cfg, simp) ==
    IF r.kind # "ok" THEN [kind |-> r.kind, driving_tracks |-> obj.driving_tracks]
    ELSE AppendFrom(obj.driving_tracks, r.segments, 1, timestamp, cfg,
                    obj.gpx.creator, simp)

(* trk_split_trksegs on the result of the stage before it *)
SplitStage(r, cfg) ==
    IF r.kind # "ok" THEN r
    ELSE [kind |-> "ok", segments |-> TrkSplitTrksegs(r.segments, cfg.threshold).trksegs]

(* self._trk_merge_trksegs on the result of the stage before it *)
MergeResult(r) ==
    IF r.kind # "ok" THEN r ELSE [kind |-> "ok", segments |-> r.trksegs]
MergeStage(r, cfg) ==
    IF r.kind # "ok" THEN r
    ELSE MergeResult(TrkMergeTrksegs(r.segments, 0, cfg.max_seconds))

(* GPXFile.process, lines 81-83 *)
DefaultStages(obj, trk, range, cfg) ==
    StagesAppended(obj, [kind |-> "ok", segments |-> trk.segments],
                   range.min_time, cfg, FALSE)

(* BadElfGPXFile.process, lines 211-238 *)
BadElfStages(obj, trk, range, cfg) ==
    StagesAppended(obj, SplitStage(TrkRemoveOutliers(trk), cfg),
                   range.min_time, cfg, TRUE)

(* GarminGPXFile.process, lines 265-276 *)
GarminStages(obj, trk, range, cfg) ==
    StagesAppended(obj, MergeStage(TrkRemoveIgnored(trk, obj.ignore, range), cfg),
                   range.min_time, cfg, FALSE)

(* MyTracksGPXFile.process, lines 306-339 *)
TimelogResult(r) ==
    IF r.kind # "ok" THEN r ELSE [kind |-> "ok", segments |-> r.segments]
MyTracksStages(obj, trk, range, cfg, tsegs) ==
    StagesAppended(obj,
                   IF TimelogOverlapsRange(tsegs, range)
                   THEN TimelogResult(TrkFilterTimelog(trk, tsegs, FALSE))
                   ELSE SplitStage(TrkFilterSpeed(trk, cfg, obj.profile), cfg),
                   range.min_time, cfg, TRUE)

(* The body of the loop over the tracks, in the class that GPXFile.load     *)
(* chose for the profile.                                                   *)
ProfileStages(obj, trk, range, cfg, tsegs) ==
    IF range.kind # "ok"
    THEN [kind |-> range.kind, driving_tracks |-> obj.driving_tracks]
    ELSE IF TrkInLog(obj, range.min_time)
    THEN [kind |-> "ok", driving_tracks |-> obj.driving_tracks]
    ELSE IF obj.profile = "bad_elf" THEN BadElfStages(obj, trk, range, cfg)
    ELSE IF obj.profile = "garmin" THEN GarminStages(obj, trk, range, cfg)
    ELSE IF obj.profile = "mytracks" THEN MyTracksStages(obj, trk, range, cfg, tsegs)
    ELSE DefaultStages(obj, trk, range, cfg)

(* process, r being the result of the loop *)
ProfileProcessed(obj, r) ==
    [kind |-> r.kind,
     obj |-> [obj EXCEPT !.driving_tracks = r.driving_tracks,
                         !.is_processed = (r.kind = "ok")]]

ProfileProcess(obj, cfg, tsegs) ==
    IF obj.is_processed THEN [kind |-> "ok", obj |-> obj]
    ELSE ProfileProcessed(obj, ProfileStages(obj, obj.gpx.tracks[1],
                                             TrkGetTimeRange(obj.gpx.tracks[1]),
                                             cfg, tsegs))

(* The files given: one track of one or two segments, whose points are one  *)
(* thousandth of a degree apart for each second and carry a myTracks speed  *)
(* that is 0 at time 0.                                                     *)
ProcTimes == 0..5
ProcPoint(t) ==
    [time |-> t, longitude |-> t, latitude |-> 0,
     extensions |-> <<Element("mytracks:speed", <<IF t = 0 THEN 0 ELSE 2>>, <<>>)>>]
ProcSeg(times) == [points |-> [i \in 1..Len(times) |-> ProcPoint(times[i])]]
ProcSegments ==
    UNION {{ProcSeg(t) : t \in {u \in [1..n -> ProcTimes] :
                                   \A i \in 1..(n - 1) : u[i] < u[i + 1]}} :
           n \in 1..MaxProcPts}
ProcTracks ==
    {[segments |-> <<a>>] : a \in ProcSegments}
    \cup {[segments |-> <<a, b>>] :
            a \in ProcSegments, b \in {ProcSeg(<<6, 7>>), ProcSeg(<<9, 8, 10, 11>>)}}
Creators == {{"Bad Elf"}, {"DriveSmart"}, {"myTracks"}, {}}
IgnoreLists ==
    {[trk |-> a, trkseg |-> b] : a \in {{}, {0}, {1}}, b \in {{}, {1}, {6}}}
ProcTimelogs ==
    {<<Timeseg(<<0>>, <<2>>), Timeseg(<<4>>, <<6>>)>>,
     <<Timeseg(<<20>>, <<30>>)>>}

(* GPXFile.load: __init__ of the class of the profile *)
ProfileInit(trk, creator, ign, existing) ==
    [kind |-> "GPXFile",
     gpx |-> [creator |-> creator, tracks |-> <<trk>>],
     ignore |-> ign,
     is_processed |-> FALSE,
     driving_tracks |-> <<>>,
     existing_trk_timestamps |-> existing,
     profile |-> gpx_profile(creator)]

InitProcess ==
    /\ NoImport
    /\ RdpIdle
    /\ SplitIdle
    /\ MergeIdle
    /\ SpeedIdle
    /\ TravelIdle
    /\ ExtractIdle
    /\ TimelogIdle
    /\ gpxfile \in {ProfileInit(t, c, ign, e) :
                      t \in ProcTracks, c \in Creators, ign \in IgnoreLists,
                      e \in {{}, {0}}}
    /\ timelog \in ProcTimelogs
    /\ processed = Unset

Process ==
    /\ processed = Unset
    /\ processed' = ProfileProcess(gpxfile, ImportConfig, timelog)
    /\ UNCHANGED <<importVars, geomVars, rdpVars, splitVars, mergeVars,
                   speedVars, travelVars, extractVars, timelogVars, gpxfile,
                   timelog>>

NextProcess == Process

SpecProcess == InitProcess /\ [][NextProcess]_vars

----------------------------------------------------------------------------
(* Properties. *)

ImportOps == {"import_gpx_files", "import_gpx:import_gpx_files"}

(* The keys of the rows of a store, in order. *)
Keys(rows) ==
    [i \in 1..Len(rows) |-> ParseTs(rows[i].source_track_timestamp)]

(* The keys of the tracks of the files of a batch, in order. *)
BatchKeys(files) ==
    Flatten([i \in 1..Len(files) |->
               [j \in 1..Len(files[i].tracks) |->
                  TrkGetTimeRange(files[i].tracks[j]).min_time]])

AllParseable(files) == \A i \in 1..Len(files) : files[i].kind = "gpx"

SkipLogged(o, key) ==
    \E j \in 1..Len(o) :
        o[j].msg = "already in the driving log" /\ o[j].timestamp = key

Count(seq, x) == Cardinality({i \in 1..Len(seq) : seq[i] = x})

(* C1: when import_gpx_files is run a second time in succession on the     *)
(* same files, it completes, leaves the store with the records it had       *)
(* after the first run, and logs a skip for every track of the files whose  *)
(* source_track_timestamp is already in the store.                          *)
C1_RepeatedImportIsIdempotent ==
    (lastOp \in ImportOps /\ repeat /\ AllParseable(lastBatch.files)) =>
        /\ err = "ok"
        /\ store = storeBefore
        /\ \A k \in Range(BatchKeys(lastBatch.files)) :
               k \in Range(Keys(storeBefore)) => SkipLogged(out, k)

(* C2: in one batch of several files, a track is logged as skipped when     *)
(* its source_track_timestamp is in the existing key set of the store or    *)
(* was used by an earlier track of the batch, and no key of the batch is    *)
(* appended more than once.                                                 *)
C2_BatchDeduplicates ==
    (lastOp \in ImportOps /\ ~repeat /\ AllParseable(lastBatch.files)) =>
        LET keys == BatchKeys(lastBatch.files)
        IN  /\ \A k \in 1..Len(keys) :
                   (\/ keys[k] \in Range(Keys(storeBefore))
                    \/ \E j \in 1..(k - 1) : keys[j] = keys[k])
                   => SkipLogged(out, keys[k])
            /\ \A k \in Range(keys) :
                   Count(Keys(store), k) <= Count(Keys(storeBefore), k) + 1

(* C3: no two rows of the store have the same source_track_timestamp, a     *)
(* track of several segments included.                                      *)
C3_KeysAreUnique ==
    \A i, j \in 1..Len(store) :
        i # j => store[i].source_track_timestamp
                 # store[j].source_track_timestamp

(* C4: every step leaves the rows that were in the store in place and       *)
(* unchanged; rows are only ever added behind them.                         *)
C4_AppendOnly ==
    [][/\ Len(store) <= Len(store')
       /\ SubSeq(store', 1, Len(store)) = store]_vars

C4_Witness ==
    /\ lastOp = "append_tracks_to_gpkg"
    /\ Len(storeBefore) > 0
    /\ Len(store) > Len(storeBefore)

(* C5: whenever import_gpx has run import_gpx_files, the backup file is a   *)
(* copy of the store as it was before that call, whatever the file list.    *)
C5_BackupBeforeImport ==
    lastOp = "import_gpx:import_gpx_files" =>
        backupFile = BackupCopy(storeBefore, skew)

C5_Witness ==
    /\ lastOp = "import_gpx:import_gpx_files"
    /\ Len(lastBatch.files) > 0
    /\ Len(storeBefore) > 0
    /\ backupFile = BackupCopy(storeBefore, skew)

(* C6: when import_gpx_files raises, the store holds exactly the rows it    *)
(* had before the call.                                                     *)
C6_NoPartialCommit ==
    (lastOp \in ImportOps /\ err # "ok") => store = storeBefore

C6_Witness ==
    /\ lastOp \in ImportOps
    /\ err # "ok"
    /\ Len(lastBatch.files) >= 2
    /\ loaded >= 1
    /\ store = storeBefore

(* C7: when a file of the batch cannot be parsed, the other files are       *)
(* still loaded and processed, and their new tracks are in the store.       *)
C7_BadFileAbortsOnlyItself ==
    (lastOp \in ImportOps /\ ~AllParseable(lastBatch.files)) =>
        \A i \in 1..Len(lastBatch.files) :
            lastBatch.files[i].kind = "gpx" =>
                \A j \in 1..Len(lastBatch.files[i].tracks) :
                    Len(lastBatch.files[i].tracks[j].segments[1].points) >= 2
                    => TrkGetTimeRange(lastBatch.files[i].tracks[j]).min_time
                       \in Range(Keys(store))

(* C8: while the row count of the store differs from the count of its       *)
(* geometry layer, no step writes the backup file or the store.             *)
C8_InconsistentStoreBlocksImport ==
    [][skew # 0 => (backupFile' = backupFile /\ store' = store)]_vars

(* C9: every row of the store has a geometry, and append_tracks_to_gpkg     *)
(* appends the records of exactly the tracks of two or more coordinates,    *)
(* in order, and prints a line for each of the others.                      *)
C9_ShortTracksAreNotStored ==
    /\ \A i \in 1..Len(store) : store[i].geometry.kind = "MultiLineString"
    /\ lastOp = "append_tracks_to_gpkg" =>
           /\ store = storeBefore
                      \o [i \in 1..Len(SelectSeq(arg, LAMBDA dt :
                                                    Len(dt.coords) >= 2)) |->
                            GetRecord(SelectSeq(arg, LAMBDA dt :
                                                  Len(dt.coords) >= 2)[i])]
           /\ \A i \in 1..Len(arg) :
                  Len(arg[i].coords) < 2 =>
                      \E j \in 1..Len(out) :
                          /\ out[j].msg = "has no geometry"
                          /\ out[j].timestamp = arg[i].timestamp

C9_Witness ==
    /\ lastOp = "append_tracks_to_gpkg"
    /\ \E i \in 1..Len(arg) : Len(arg[i].coords) < 2
    /\ \E i \in 1..Len(arg) : Len(arg[i].coords) >= 2
    /\ Len(store) > Len(storeBefore)

(* C10: the geometry of a path is a list of line parts whose points number  *)
(* the points of the path plus its crossings, and a path that crosses once  *)
(* gives exactly two parts, each with a point at longitude 180 or -180.     *)
OnAntimeridian(p) == p[1] = R(180) \/ p[1] = R(-180)

C10_AntimeridianSplit ==
    (geometry.kind # "unset" /\ Len(coords) >= 2) =>
        /\ geometry.kind = "MultiLineString"
        /\ SeqSum([i \in 1..Len(geometry.parts) |-> Len(geometry.parts[i])])
           = Len(coords) + Len(Crossings(coords))
        /\ Len(Crossings(coords)) = 1 =>
               /\ Len(geometry.parts) = 2
               /\ \A i \in 1..2 :
                      \E j \in 1..Len(geometry.parts[i]) :
                          OnAntimeridian(geometry.parts[i][j])

(* The index of a trackpoint of the rdp_spherical input is its time. *)
Retained(i) == trackpoints[i] \in Range(results.points)

(* C11: for a list of one point or more, rdp_spherical returns a list that  *)
(* begins with the first point of its input and ends with the last.         *)
C11_RdpKeepsEnds ==
    (results # Unset /\ trackpoints # <<>>) =>
        /\ results.kind = "ok"
        /\ results.points # <<>>
        /\ results.points[1] = trackpoints[1]
        /\ Last(results.points) = Last(trackpoints)

C11_Witness ==
    /\ results # Unset
    /\ results.kind = "ok"
    /\ Len(trackpoints) = MaxRdp
    /\ Len(results.points) = 3
    /\ results.points[1] = trackpoints[1]
    /\ Last(results.points) = Last(trackpoints)

(* C12: every point that rdp_spherical drops lies between two neighbours    *)
(* of the result and is within epsilon, by point_line_distance, of the      *)
(* line through them.                                                       *)
C12_RdpErrorBound ==
    (results # Unset /\ results.kind = "ok") =>
        \A i \in 1..Len(trackpoints) :
            ~Retained(i) =>
                \E j \in 1..(Len(results.points) - 1) :
                    /\ results.points[j].time < i
                    /\ i < results.points[j + 1].time
                    /\ PointLineDistance(Coord(trackpoints[i]),
                                         Coord(results.points[j]),
                                         Coord(results.points[j + 1]))
                       <= epsilon

C12_Witness ==
    /\ results # Unset
    /\ results.kind = "ok"
    /\ \E i \in 1..Len(trackpoints) :
           /\ ~Retained(i)
           /\ \E j \in 1..(Len(results.points) - 1) :
                  /\ results.points[j].time < i
                  /\ i < results.points[j + 1].time
                  /\ PointLineDistance(Coord(trackpoints[i]),
                                       Coord(results.points[j]),
                                       Coord(results.points[j + 1])) > 0
    /\ \E i \in 1..Len(trackpoints) : 1 < i /\ i < Len(trackpoints) /\ Retained(i)

(* C13: with epsilon = 0, rdp_spherical returns the list it was given.      *)
C13_RdpZeroEpsilonIsIdentity ==
    (results # Unset /\ epsilon = 0 /\ trackpoints # <<>>) =>
        /\ results.kind = "ok"
        /\ results.points = trackpoints

(* The 0-based indexes of the points of a segment that come threshold       *)
(* seconds or more after their predecessor.                                 *)
SplitPoints(seg) ==
    {i \in 1..(Len(seg.points) - 1) :
       seg.points[i + 1].time - seg.points[i].time >= threshold}

(* How many sub-segments the segments before segment sn must give. *)
PiecesBefore(sn) ==
    SeqSum([k \in 1..(sn - 1) |-> Cardinality(SplitPoints(segments[k])) + 1])

PiecesOf(sn) ==
    SubSeq(updated_trksegs.trksegs, PiecesBefore(sn) + 1, PiecesBefore(sn + 1))

(* The 0-based index, in its segment, of the first point of piece k. *)
StartOf(pieces, k) == SeqSum([j \in 1..(k - 1) |-> Len(pieces[j].points)])

Partitions(pieces, seg) ==
    /\ Flatten([j \in 1..Len(pieces) |-> pieces[j].points]) = seg.points
    /\ SplitPoints(seg) # {} => \A j \in 1..Len(pieces) : pieces[j].points # <<>>
    /\ {StartOf(pieces, k) : k \in 2..Len(pieces)} = SplitPoints(seg)

Ascending(seg) ==
    \A i \in 1..(Len(seg.points) - 1) :
       seg.points[i].time <= seg.points[i + 1].time

(* The case of C15: one time-ascending segment was split and the pieces     *)
(* were merged with a max gap equal to the split threshold.                 *)
SplitThenMerged ==
    /\ merged # Unset
    /\ Len(segments) = 1
    /\ Ascending(segments[1])
    /\ max_seconds = threshold

GapAfter(segs, k) == segs[k + 1].points[1].time - Last(segs[k].points).time

AllPoints(segs) == Flatten([j \in 1..Len(segs) |-> segs[j].points])

(* C19: _trk_merge_trksegs returns for every finite list; segments i and    *)
(* i+1 are concatenated exactly when (start time of i+1) - (end time of i)  *)
(* <= max gap, so the boundaries of the output are the boundaries of the    *)
(* input with a larger gap; the concatenation of the output segments is the *)
(* concatenation of the input segments; and every adjacent pair of output   *)
(* segments has a gap strictly greater than the max gap.                    *)
C19_MergeRuleAndFixpoint ==
    merged # Unset =>
      /\ merged.kind = "ok"
      /\ AllPoints(merged.trksegs) = AllPoints(trksegs)
      /\ {StartOf(merged.trksegs, k) : k \in 2..Len(merged.trksegs)}
           = {StartOf(trksegs, k + 1) :
                k \in {j \in 1..(Len(trksegs) - 1) :
                         GapAfter(trksegs, j) > max_seconds}}
      /\ \A k \in 1..(Len(merged.trksegs) - 1) :
            GapAfter(merged.trksegs, k) > max_seconds

(* C20: for any list containing a segment with fewer than 2 points (one     *)
(* point or zero points), _trk_merge_trksegs returns a list of segments     *)
(* instead of raising an error.                                             *)
C20_MergeNeverRaises ==
    /\ merged # Unset
    /\ \E j \in 1..Len(trksegs) : Len(trksegs[j].points) < 2
    => merged.kind = "ok"

(* C16: for the same point sequence, rolling window and method, if          *)
(* m1 <= m2 then the points filter_speed retains with min_speed_m_s = m2    *)
(* are a subset of, and never more numerous than, those it retains with m1. *)
C16_SpeedFilterMonotone ==
    \A r1, r2 \in speed_runs :
       /\ r1.min_speed_m_s <= r2.min_speed_m_s
       /\ r1.filtered_trackpoints.kind = "ok"
       /\ r2.filtered_trackpoints.kind = "ok"
       => /\ Range(r2.filtered_trackpoints.points)
               \subseteq Range(r1.filtered_trackpoints.points)
          /\ Len(r2.filtered_trackpoints.points)
               <= Len(r1.filtered_trackpoints.points)

C16_Witness ==
    \E r1, r2 \in speed_runs :
       /\ r1.min_speed_m_s < r2.min_speed_m_s
       /\ r1.filtered_trackpoints.kind = "ok"
       /\ r2.filtered_trackpoints.kind = "ok"
       /\ method = "extended"
       /\ rolling_window = 2
       /\ Len(r2.filtered_trackpoints.points) > 0
       /\ Len(r2.filtered_trackpoints.points)
            < Len(r1.filtered_trackpoints.points)
       /\ Len(r1.filtered_trackpoints.points) < Len(speed_trackpoints)

(* The scenario of C17: 100 points, of which points 40-42 carry a clock     *)
(* value 10 seconds earlier than point 39 and all others ascend.            *)
TimeTravelScenario ==
    /\ Len(segment.points) = 100
    /\ \A i \in 40..42 : At(segment.points, i).time = At(segment.points, 39).time - 10
    /\ \A i, j \in (0..99) \ (40..42) :
          i < j => At(segment.points, i).time < At(segment.points, j).time

(* C17: in that scenario trkseg_remove_time_travel returns exactly 97       *)
(* points: points 40-42 are removed and points 0-39 and 43-99 are unchanged *)
(* and in order.                                                            *)
C17_TimeTravelScenario ==
    TimeTravelScenario /\ travelled # Unset =>
      /\ travelled.kind = "ok"
      /\ Len(travelled.points) = 97
      /\ travelled.points
           = Slice(segment.points, 0, 40) \o Slice(segment.points, 43, 100)

C17_Witness ==
    /\ TimeTravelScenario
    /\ travelled # Unset
    /\ At(segment.points, 40).time = 29
    /\ At(travelled.points, 40) = At(segment.points, 43)

(* outp is an order-preserving subsequence of inp, nothing added or          *)
(* duplicated; the points of inp have distinct times in input order.        *)
IsSubsequence(outp, inp) ==
    /\ Len(outp) <= Len(inp)
    /\ \A i \in 1..Len(outp) : outp[i] \in Range(inp)
    /\ \A i \in 1..(Len(outp) - 1) : outp[i].time < outp[i + 1].time

(* C18: a filtering stage, here rdp_spherical, returns an order-preserving  *)
(* subsequence of its input: it never adds, duplicates or reorders points,  *)
(* and its output is never longer than its input, for every input length    *)
(* including 1.                                                             *)
C18_StagesReturnSubsequences ==
    results # Unset /\ Len(trackpoints) >= 1 =>
      /\ results.kind = "ok"
      /\ IsSubsequence(results.points, trackpoints)

(* The points of the segment given to trkseg_remove_time_travel that carry  *)
(* a clock value earlier than a point before them, by 0-based index.        *)
TravelRun ==
    {i \in 0..(Len(segment.points) - 1) :
       \E j \in 0..(i - 1) : At(segment.points, j).time > At(segment.points, i).time}

(* The breaks: the indexes i + 1 with time[i] > time[i + 1]. *)
Breaks ==
    {i + 1 : i \in {k \in 0..(Len(segment.points) - 2) :
                      At(segment.points, k).time > At(segment.points, k + 1).time}}

(* A point at most MAX_TIME_TRAVEL_LEN places after the break, the break    *)
(* included, is later than the last good point before the break.            *)
ConsistentWithin(bti) ==
    \E j \in bti..(bti + MAX_TIME_TRAVEL_LEN - 1) :
       /\ j < Len(segment.points)
       /\ At(segment.points, j).time > At(segment.points, bti - 1).time

(* C21: for a segment with one break, trkseg_remove_time_travel removes     *)
(* fewer than 60 points, and removes no point when no point within 60       *)
(* places of the break is consistent with the last known-good time.         *)
C21_TimeTravelBounded ==
    travelled # Unset /\ Cardinality(Breaks) = 1 =>
      /\ Len(segment.points) - Len(travelled.points) < MAX_TIME_TRAVEL_LEN
      /\ (\A bti \in Breaks : ~ConsistentWithin(bti))
           => travelled.points = segment.points

(* C28: for a segment whose timestamps ascend except for one contiguous run *)
(* of points with clock values earlier than the point preceding the run,    *)
(* trkseg_remove_time_travel removes exactly that run and keeps every other *)
(* point.                                                                   *)
C28_RemovesExactlyTheRun ==
    travelled # Unset /\ TravelRun # {} =>
      travelled.points
        = SelectSeq(segment.points, LAMBDA pt : pt.longitude \notin TravelRun)

(* The points of a list without those at the 0-based indexes of a set. *)
Dropping(points, indexes) ==
    SelectSeq(points, LAMBDA pt : \E i \in 0..(Len(points) - 1) :
                                     At(points, i) = pt /\ i \notin indexes)

(* The jumps of the segment given to the teleportation pass: the indexes i  *)
(* whose speed to point i + 1 reaches the threshold.                        *)
TeleportJumps ==
    {i \in 0..(Len(travelled.points) - 2) :
       Speeding(At(travelled.points, i), At(travelled.points, i + 1))}

(* The points of the window of 60 points that starts at point i, point i    *)
(* excluded, whose speed back to point i is below the threshold.            *)
SlowAfter(i) ==
    {j \in (i + 1)..(i + MAX_TELEPORT_LEN - 1) :
       /\ j < Len(travelled.points)
       /\ ~Speeding(At(travelled.points, i), At(travelled.points, j))}

C29_OutlierFilterKeepsEndpoints ==
    /\ travelled # Unset /\ Len(segment.points) >= 1
         => /\ Len(travelled.points) >= 1
            /\ travelled.points[1] = segment.points[1]
            /\ Last(travelled.points) = Last(segment.points)
    /\ teleported # Unset /\ Len(travelled.points) >= 1
         => /\ Len(teleported.points) >= 1
            /\ teleported.points[1] = travelled.points[1]
            /\ Last(teleported.points) = Last(travelled.points)

C29_Witness ==
    /\ teleported # Unset
    /\ Len(travelled.points) < Len(segment.points)
    /\ Len(segment.points) - 1 \in TravelRun
    /\ Last(teleported.points) = Last(segment.points)

(* C26: for every coordinate list with at least 2 points, geometry          *)
(* construction completes without error and yields a multi-part line with   *)
(* at least one part, every part having at least 2 points.                  *)
C26_GeometryIsValid ==
    (geometry.kind # "unset" /\ Len(coords) >= 2) =>
        /\ geometry.kind = "MultiLineString"
        /\ Len(geometry.parts) >= 1
        /\ \A i \in 1..Len(geometry.parts) : Len(geometry.parts[i]) >= 2

OffAntimeridian(ps) == SelectSeq(ps, LAMBDA pt : ~OnAntimeridian(pt))

(* C27: for every coordinate list with at least 2 points, the parts of the  *)
(* geometry, with the crossing points on the antimeridian left out,         *)
(* concatenate to the original coordinate list; in particular the last      *)
(* coordinate of the track is present.                                      *)
C27_GeometryKeepsPoints ==
    (geometry.kind = "MultiLineString" /\ Len(coords) >= 2) =>
        /\ OffAntimeridian(Flatten(geometry.parts)) = OffAntimeridian(coords)
        /\ Last(coords) \in Range(Flatten(geometry.parts))

(* No extension element of the point, and no child of one, carries a speed  *)
(* tag of the profile.                                                      *)
NoSpeedField ==
    \A i \in 1..Len(extensions) :
       /\ extensions[i].tag \notin SPEED_TAGS(profile)
       /\ \A j \in 1..Len(extensions[i].children) :
             extensions[i].children[j].tag \notin SPEED_TAGS(profile)

(* C23: for every profile and every point, including a point with an empty  *)
(* extension list, get_speed returns an absent value, never zero and never  *)
(* an error, when the profile's speed field is not present.                 *)
C23_MissingSpeedIsAbsent ==
    speed # Unset /\ NoSpeedField => speed = [kind |-> "ok", speed |-> NaN]

(* C24: timelog filtering.  A segment overlaps the timelog when some        *)
(* timelog interval stops after its first point and starts before its last. *)
(* When a segment of the track overlaps no interval, the filter raises      *)
(* NoTimelogOverlapError if raise_exception is true; if it is false the     *)
(* segment contributes nothing and the other segments are filtered and      *)
(* kept.  Every returned segment holds exactly the points of one input      *)
(* segment whose time lies inside one timelog interval, in their order.     *)
OverlapsTimelog(sn) ==
    \E k \in 1..Len(timesegs) :
        OverlapsRange(timesegs[k], timelog_track.segments[sn].points[1].time,
                      Last(timelog_track.segments[sn].points).time)
InsideInterval(pt, k) ==
    /\ timesegs[k].start_utc # NaT
    /\ timesegs[k].stop_utc # NaT
    /\ timesegs[k].start_utc[1] <= pt.time
    /\ pt.time <= timesegs[k].stop_utc[1]
KeptOf(sn, k) ==
    SelectSeq(timelog_track.segments[sn].points, LAMBDA pt : InsideInterval(pt, k))
KeptPairs ==
    {pr \in (1..Len(timelog_track.segments)) \X (1..Len(timesegs)) :
        OverlapsTimelog(pr[1]) /\ KeptOf(pr[1], pr[2]) # <<>>}
C24_TimelogFilter ==
    filtered_track # Unset =>
        LET missing == \E sn \in 1..Len(timelog_track.segments) : ~OverlapsTimelog(sn)
        IN /\ (missing /\ raise_exception)
                => filtered_track.kind = "NoTimelogOverlapError"
           /\ (~missing \/ ~raise_exception)
                => /\ filtered_track.kind = "ok"
                   /\ \A j \in 1..Len(filtered_track.segments) :
                        \E pr \in KeptPairs :
                            filtered_track.segments[j].points = KeptOf(pr[1], pr[2])
                   /\ Len(filtered_track.segments) = Cardinality(KeptPairs)
                   /\ \A pr \in KeptPairs :
                        \E j \in 1..Len(filtered_track.segments) :
                            filtered_track.segments[j].points = KeptOf(pr[1], pr[2])
C24_Witness ==
    /\ filtered_track # Unset
    /\ ~raise_exception
    /\ Len(timelog_track.segments) = 2
    /\ ~OverlapsTimelog(1)
    /\ OverlapsTimelog(2)
    /\ filtered_track.kind = "ok"
    /\ Len(filtered_track.segments) = 1
    /\ Len(filtered_track.segments[1].points) = 2

(* C25: the ignore list holds for every device profile.  When process ends  *)
(* without an exception, a track whose timestamp is on the track ignore     *)
(* list has produced no DrivingTrack, and no DrivingTrack holds a point of  *)
(* a segment whose first point's time is on the segment ignore list.        *)
SourceTrk == gpxfile.gpx.tracks[1]
SourceTimestamp == TrkGetTimeRange(SourceTrk).min_time
IgnoredSegments ==
    {sn \in 1..Len(SourceTrk.segments) :
       SourceTrk.segments[sn].points[1].time \in gpxfile.ignore.trkseg}
HoldsPointOf(dt, sn) ==
    \E i \in 1..Len(SourceTrk.segments[sn].points) :
        \E j \in 1..Len(dt.coords) :
            dt.coords[j] = <<Rat(SourceTrk.segments[sn].points[i].longitude, 1000), R(0)>>
C25_IgnoredProduceNothing ==
    (processed # Unset /\ processed.kind = "ok") =>
        /\ SourceTimestamp \in gpxfile.ignore.trk
             => processed.obj.driving_tracks = <<>>
        /\ \A sn \in IgnoredSegments :
             \A d \in 1..Len(processed.obj.driving_tracks) :
                ~HoldsPointOf(processed.obj.driving_tracks[d], sn)

(* C30: the source_track_timestamp of every DrivingTrack that process       *)
(* produced is the earliest first-point time of the segments of the source  *)
(* track as it was read, whatever the profile and its stages, so all the    *)
(* DrivingTracks of the track carry the same key.                           *)
EarliestSegmentStart ==
    SetMin({SourceTrk.segments[sn].points[1].time :
              sn \in 1..Len(SourceTrk.segments)})
====
